---- MODULE Spec2Model ----
(***************************************************************************)
(* A model of the media decode and timed-display pipeline of               *)
(* linux-wallpaperengine-ext: MediaPlayer (src/src/media_player.cpp), its  *)
(* audio thread, the display gate and the application's update loop        *)
(* (src/unnamed/part_000).                                                 *)
(*                                                                         *)
(* The specifications share the variables:                                 *)
(*   Spec           the player's lifecycle: initialize, load_media, play,  *)
(*                  pause, set_fps_limit and cleanup, interleaved with the *)
(*                  audio thread's loop;                                   *)
(*   LoadSpec       initialize, load_media and cleanup alone;              *)
(*   FrameSpec      initialize and load_media followed by frame requests;  *)
(*   AudioSpec      a loaded video with audio: play, pause, stop,          *)
(*                  set_muted, set_volume and cleanup against the audio    *)
(*                  thread (AudioFairSpec adds the progress of both        *)
(*                  threads);                                              *)
(*   DecodeSpec     extract_next_frame over one stream, step by step, with *)
(*                  the wall clock (DecodeFairSpec adds the progress of    *)
(*                  the render thread);                                    *)
(*   GateSpec       should_display_frame polled against the steady clock;  *)
(*   LoopSpec       Application::update_loop in background mode.           *)
(* Times are whole microseconds.                                           *)
(***************************************************************************)
EXTENDS Integers, Sequences, FiniteSets, TLC

VARIABLES
    \* ---- MediaPlayer fields (media_player.h:85-152)
    initialized, playing, current_media, media_type,
    has_video, has_audio, image_data,
    format_context, codec_context, frame, rgb_frame, sws_context,
    video_stream_index, frame_buffer,
    audio_codec_context, audio_stream_index, audio_frame,
    decoder_initialized, frame_rate, target_display_fps,
    volume, muted, playback_volume,
    audio_player, audio_playback_enabled, audio_stream_ready,
    audio_thread, audio_thread_running, audio_file_path,
    \* ---- the threads of the process
    threads,        \* the std::thread objects started by setup_ffmpeg_decoder
    rpc,            \* where the render thread is inside cleanup()
    crashed,        \* std::terminate was called
    \* ---- what the last call of the render thread was, and what it returned
    lastCall, fps_limit_requested,
    \* ---- the clock (steady_clock and high_resolution_clock), microseconds
    now,
    \* ---- extract_next_frame on the loaded video
    stream,              \* what the demuxer and the decoder make of the file
    read_pos,            \* packets of the file already read (format_context_)
    decoder_queue,       \* PTS of the frames held inside codec_context_
    current_real_time,   \* the local of the running invocation
    playback_start_time, video_pts,
    xpc,                 \* "idle"; "read" in the packet loop; "rewind" after it
    depth,               \* nesting of extract_next_frame invocations
    pass_frames,         \* frames returned since the last seek to the start
    calls,               \* calls made so far
    last,                \* what the last call returned
    \* ---- should_display_frame, one gate_fps (target_display_fps_) per player
    last_display_time,   \* the function-local static, shared by all players
    gate_fps, trues, first_poll, continuous, gate_last,
    \* ---- Application::update_loop
    loop_pc, cursor, iter_now, last_frame_time, frame_duration,
    native_fps, start_time, decoded,
    \* ---- the renderers
    composed,            \* the last composition: its inputs, placement,
                         \* destination buffer and return value
    \* ---- process_audio_frame_data
    audio_in,            \* the decoded frame the audio thread passes in
    converted,           \* the samples it made of the frame
    \* ---- the PulseAudio sink (argument_parser.h:146-156)
    audio_stream,        \* audio_stream_: 0 is nullptr, else the stream made
    sink_ready,          \* audio_stream_ready_
    sink_volume, sink_muted,   \* playback_volume_, playback_muted_
    audio_buffer,        \* the queue of buffers, each a sequence of bytes
    mainloop_lock,       \* the thread holding the threaded mainloop's lock
    buffer_mutex,        \* the thread holding audio_buffer_mutex_
    spc,                 \* where each thread is inside its sink operation
    pending,             \* the data of the running write_audio_data
    writable_size,       \* the local of each running process_audio_buffer
    next_byte,           \* bytes are numbered as the audio thread makes them
    handed,              \* the bytes pa_stream_write took for this stream
    accepted             \* the bytes queued by write_audio_data since the
                         \* stream was made

playerVars == <<initialized, playing, current_media, media_type,
                has_video, has_audio, image_data,
                format_context, codec_context, frame, rgb_frame, sws_context,
                video_stream_index, frame_buffer,
                audio_codec_context, audio_stream_index, audio_frame,
                decoder_initialized, frame_rate, target_display_fps,
                volume, muted, playback_volume,
                audio_player, audio_playback_enabled, audio_stream_ready,
                audio_thread, audio_thread_running, audio_file_path,
                threads, rpc, crashed, lastCall, fps_limit_requested>>

decodeVars == <<stream, read_pos, decoder_queue, current_real_time,
                playback_start_time, video_pts, xpc, depth, pass_frames,
                calls, last>>

gateVars == <<last_display_time, gate_fps, trues, first_poll, continuous,
              gate_last>>

loopVars == <<loop_pc, cursor, iter_now, last_frame_time, frame_duration,
              native_fps, start_time, decoded>>

composeVars == <<composed>>

convertVars == <<audio_in, converted>>

sinkVars == <<audio_stream, sink_ready, sink_volume, sink_muted, audio_buffer,
              mainloop_lock, buffer_mutex, spc, pending, writable_size,
              next_byte, handed, accepted>>

vars == <<playerVars, now, decodeVars, gateVars, loopVars, composeVars, convertVars, sinkVars>>

Min(a, b) == IF a < b THEN a ELSE b

Max(a, b) == IF a > b THEN a ELSE b

(***************************************************************************)
(* The files the player is asked to load.  A file is its path; the model   *)
(* keeps, per path, what the code reads of it: whether it exists, its      *)
(* extension, the kinds of its streams in container order and the stream   *)
(* rates of its first video stream.                                        *)
(***************************************************************************)
Null == "null"

NoPath == ""

Paths == {"a.mp4", "hi.webm", "snd.avi", "c.png", "e.GIF", "f.txt", "gone.mp4"}

FileExists(p) == p # "gone.mp4"

\* std::filesystem::path::extension(), as the sequence of its characters
Extension(p) ==
    CASE p = "a.mp4"    -> <<".", "m", "p", "4">>
      [] p = "gone.mp4" -> <<".", "m", "p", "4">>
      [] p = "hi.webm"  -> <<".", "w", "e", "b", "m">>
      [] p = "snd.avi"  -> <<".", "a", "v", "i">>
      [] p = "c.png"    -> <<".", "p", "n", "g">>
      [] p = "e.GIF"    -> <<".", "G", "I", "F">>
      [] OTHER          -> <<".", "t", "x", "t">>

\* codec_type of each stream, in container order
StreamKinds(p) ==
    CASE p = "a.mp4"   -> <<"audio", "video", "audio", "video">>
      [] p = "hi.webm" -> <<"video">>
      [] p = "snd.avi" -> <<"audio">>
      [] OTHER         -> <<"video">>

\* r_frame_rate and avg_frame_rate of the video stream, as num/den
StreamRates(p) ==
    CASE p = "a.mp4"   -> [r_num |-> 50, r_den |-> 1, avg_num |-> 50, avg_den |-> 1]
      [] p = "hi.webm" -> [r_num |-> 0,  r_den |-> 0, avg_num |-> 5,  avg_den |-> 1]
      [] OTHER         -> [r_num |-> 0,  r_den |-> 0, avg_num |-> 0,  avg_den |-> 0]

(***************************************************************************)
(* detect_media_type: the extension is lower-cased character by character  *)
(* (std::transform with ::tolower) and compared with the known extensions. *)
(* The ".gif" branch evaluates MediaType::GIF and discards it: control     *)
(* falls out of the if-chain to the final return.                          *)
(***************************************************************************)
ToLower(c) ==
    CASE c = "G" -> "g" [] c = "I" -> "i" [] c = "F" -> "f"
      [] c = "M" -> "m" [] c = "K" -> "k" [] c = "V" -> "v"
      [] OTHER -> c

LowerCase(ext) == [i \in DOMAIN ext |-> ToLower(ext[i])]

ImageExtensions == { <<".", "j", "p", "g">>, <<".", "j", "p", "e", "g">>,
                     <<".", "p", "n", "g">>, <<".", "b", "m", "p">>,
                     <<".", "t", "i", "f", "f">>, <<".", "w", "e", "b", "p">> }

GifExtension == <<".", "g", "i", "f">>

VideoExtensions == { <<".", "m", "p", "4">>, <<".", "a", "v", "i">>,
                     <<".", "m", "k", "v">>, <<".", "m", "o", "v">>,
                     <<".", "w", "e", "b", "m">>, <<".", "f", "l", "v">> }

detect_media_type(p) ==
    LET extension == LowerCase(Extension(p)) IN
    IF extension \in ImageExtensions THEN "IMAGE"
    ELSE IF extension = GifExtension THEN "UNKNOWN"   \* `MediaType::GIF;` has no return
    ELSE IF extension \in VideoExtensions THEN "VIDEO"
    ELSE "UNKNOWN"

(***************************************************************************)
(* The player's fields as one record, so that the private methods can be   *)
(* written as functions from the fields before to the fields after.  A     *)
(* pointer field holds Null or the path of the source it was built from.   *)
(***************************************************************************)
Fields ==
    [initialized |-> initialized, playing |-> playing,
     current_media |-> current_media, media_type |-> media_type,
     has_video |-> has_video, has_audio |-> has_audio,
     image_data |-> image_data, format_context |-> format_context,
     codec_context |-> codec_context, frame |-> frame,
     rgb_frame |-> rgb_frame, sws_context |-> sws_context,
     video_stream_index |-> video_stream_index, frame_buffer |-> frame_buffer,
     audio_codec_context |-> audio_codec_context,
     audio_stream_index |-> audio_stream_index, audio_frame |-> audio_frame,
     decoder_initialized |-> decoder_initialized, frame_rate |-> frame_rate,
     target_display_fps |-> target_display_fps,
     audio_playback_enabled |-> audio_playback_enabled,
     audio_stream_ready |-> audio_stream_ready,
     audio_thread_running |-> audio_thread_running,
     audio_file_path |-> audio_file_path,
     spawn |-> FALSE,      \* a std::thread was constructed by this call
     ret |-> FALSE]        \* what the call returns

\* The injected failure of one library call during a load (or "none").
SetupFailures == {"none", "open_input", "stream_info", "open_codec",
                  "audio_find_decoder", "audio_open", "create_stream",
                  "audio_frame", "alloc_frames", "frame_buffer", "sws", "decode"}

\* constructor: target_frame_rate_(30.0); never assigned afterwards
target_frame_rate == 30

\* constructor and the final fallback of the frame-rate detection
DefaultFrameRate == 30

free_image_data(s) == [s EXCEPT !.image_data = Null]

cleanup_ffmpeg_decoder(s) ==
    [s EXCEPT !.sws_context = Null, !.frame_buffer = Null, !.rgb_frame = Null,
              !.frame = Null, !.codec_context = Null,
              !.audio_codec_context = Null, !.audio_frame = Null,
              \* audio_player_->destroy_audio_stream(), when enabled
              !.audio_stream_ready =
                  IF audio_player /\ s.audio_playback_enabled THEN FALSE ELSE @,
              !.audio_playback_enabled =
                  IF audio_player /\ s.audio_playback_enabled THEN FALSE ELSE @,
              !.format_context = Null,
              !.decoder_initialized = FALSE,
              !.video_stream_index = -1, !.audio_stream_index = -1]

\* the selection with the guards `== -1` left out: the last stream of `kind`
LastStream(kinds, kind) ==
    IF \E i \in DOMAIN kinds : kinds[i] = kind
    THEN (CHOOSE i \in DOMAIN kinds :
              /\ kinds[i] = kind
              /\ \A j \in DOMAIN kinds : kinds[j] = kind => j <= i) - 1
    ELSE -1

\* lines 316-325: the loop over the streams, from stream i (counted from 1)
RECURSIVE FindStreams(_, _, _)
FindStreams(kinds, i, sel) ==
    IF i > Len(kinds) THEN sel
    ELSE FindStreams(kinds, i + 1,
             IF kinds[i] = "video" /\ sel.video = -1
             THEN [sel EXCEPT !.video = i - 1]
             ELSE IF kinds[i] = "audio" /\ sel.audio = -1
             THEN [sel EXCEPT !.audio = i - 1]
             ELSE sel)

\* index (from 0) of the stream of `kind` that the loop selects, or -1
FirstStream(kinds, kind) ==
    FindStreams(kinds, 1, [video |-> -1, audio |-> -1])[kind]

\* r_frame_rate, else avg_frame_rate, else 30 (rates are whole numbers here)
NativeFrameRate(rates) ==
    IF rates.r_num > 0 /\ rates.r_den > 0 THEN rates.r_num \div rates.r_den
    ELSE IF rates.avg_num > 0 /\ rates.avg_den > 0
         THEN rates.avg_num \div rates.avg_den
    ELSE DefaultFrameRate

\* lines 374-438: the audio side of setup_ffmpeg_decoder
SetupAudio(s, fail) ==
    LET p == s.current_media IN
    IF ~s.has_audio THEN s
    ELSE IF fail = "audio_find_decoder" THEN [s EXCEPT !.has_audio = FALSE]
    ELSE IF fail = "audio_open"
         THEN [s EXCEPT !.audio_codec_context = Null, !.has_audio = FALSE]
    ELSE LET a == [s EXCEPT !.audio_codec_context = p] IN
         IF ~audio_player THEN a
         ELSE IF fail = "create_stream" THEN a
         ELSE IF fail = "audio_frame"
              \* stream created, then destroyed again
              THEN [a EXCEPT !.audio_playback_enabled = FALSE,
                             !.audio_stream_ready = FALSE]
         ELSE [a EXCEPT !.audio_playback_enabled = TRUE,
                        !.audio_stream_ready = TRUE,
                        !.audio_frame = p,
                        !.audio_file_path = p,
                        !.audio_thread_running = TRUE,
                        !.spawn = TRUE]

\* lines 499-507: the timing variables set once the decoder is ready
InitialDisplayFps(s) == target_frame_rate

setup_ffmpeg_decoder(s, fail) ==
    LET p     == s.current_media
        kinds == StreamKinds(p)
        vidx  == FirstStream(kinds, "video")
        aidx  == FirstStream(kinds, "audio")
    IN
    IF s.decoder_initialized THEN [s EXCEPT !.ret = TRUE]
    ELSE IF p = NoPath THEN s
    ELSE IF fail = "open_input" THEN s
    ELSE IF fail = "stream_info" THEN s      \* opened and closed again
    ELSE
    LET s1 == [s EXCEPT !.video_stream_index = vidx, !.audio_stream_index = aidx] IN
    IF vidx = -1 THEN s1
    ELSE
    LET s2 == [s1 EXCEPT !.has_audio = (aidx # -1)] IN
    IF fail = "open_codec" THEN s2           \* codec context freed, input closed
    ELSE
    LET s3 == SetupAudio([s2 EXCEPT !.format_context = p, !.codec_context = p], fail) IN
    IF fail = "alloc_frames" THEN cleanup_ffmpeg_decoder(s3)
    ELSE
    LET s4 == [s3 EXCEPT !.frame = p, !.rgb_frame = p, !.has_video = TRUE,
                         !.frame_rate = NativeFrameRate(StreamRates(p))] IN
    IF fail = "frame_buffer" THEN cleanup_ffmpeg_decoder(s4)
    ELSE
    LET s5 == [s4 EXCEPT !.frame_buffer = p] IN
    IF fail = "sws" THEN cleanup_ffmpeg_decoder(s5)
    ELSE [s5 EXCEPT !.sws_context = p, !.decoder_initialized = TRUE,
                    !.target_display_fps = InitialDisplayFps(s5),
                    !.ret = TRUE]

load_video_ffmpeg(s, fail) == setup_ffmpeg_decoder(s, fail)

\* The image is decoded with local contexts, all released before returning.
load_image_ffmpeg(s, p, fail) ==
    IF fail \in {"open_input", "stream_info", "open_codec", "alloc_frames"}
    THEN IF fail = "open_input" THEN s ELSE free_image_data(s)
    ELSE
    LET s1 == [s EXCEPT !.has_video = FALSE] IN
    IF fail \in {"frame_buffer", "sws", "decode"} THEN free_image_data(s1)
    ELSE [s1 EXCEPT !.image_data = p, !.ret = TRUE]

load_media(s, p, fail) ==
    IF ~s.initialized THEN s
    ELSE IF ~FileExists(p) THEN s
    ELSE
    LET c == free_image_data(cleanup_ffmpeg_decoder(s))
        t == detect_media_type(p)
        l == [c EXCEPT !.current_media = p, !.media_type = t]
    IN CASE t \in {"IMAGE", "GIF"} -> load_image_ffmpeg(l, p, fail)
         [] t = "VIDEO"            -> load_video_ffmpeg(l, fail)
         [] OTHER                  -> l

(***************************************************************************)
(* The render thread's calls on one MediaPlayer.  Each call is one action, *)
(* except cleanup(), which blocks in join() until the audio thread exits.  *)
(***************************************************************************)
\* PulseAudio's constructor
InitialPlaybackVolume == 100

\* PulseAudio::set_playback_volume: the value the sink stores and scales
\* PA_VOLUME_NORM by
set_playback_volume(v) == Max(0, Min(100, v))

ThreadIds == {1, 2}

NoThread == 0

NoThreadObject == [pc |-> "none", file |-> NoPath]

\* target_display_fps_ is not set by the constructor: its first value is
\* whatever the memory held
IndeterminateFps == {0, 45}

VolumeArgs == {-5, 40, 150}

FpsArgs == {-1, 15}

\* any call but load_media, once it has returned
OtherCall == [op |-> "other", arg |-> NoPath, ret |-> TRUE]

\* the constructor's values of the fields a load can change
Constructed(fps) ==
    [initialized |-> FALSE, playing |-> FALSE,
     current_media |-> NoPath, media_type |-> "UNKNOWN",
     has_video |-> FALSE, has_audio |-> FALSE,
     image_data |-> Null, format_context |-> Null,
     codec_context |-> Null, frame |-> Null,
     rgb_frame |-> Null, sws_context |-> Null,
     video_stream_index |-> -1, frame_buffer |-> Null,
     audio_codec_context |-> Null,
     audio_stream_index |-> -1, audio_frame |-> Null,
     decoder_initialized |-> FALSE, frame_rate |-> DefaultFrameRate,
     target_display_fps |-> fps,
     audio_playback_enabled |-> FALSE,
     audio_stream_ready |-> FALSE,
     audio_thread_running |-> FALSE,
     audio_file_path |-> NoPath,
     spawn |-> FALSE, ret |-> FALSE]

InitFrom(r) ==
    /\ current_media = r.current_media /\ media_type = r.media_type
    /\ has_video = r.has_video /\ has_audio = r.has_audio
    /\ image_data = r.image_data /\ format_context = r.format_context
    /\ codec_context = r.codec_context /\ frame = r.frame
    /\ rgb_frame = r.rgb_frame /\ sws_context = r.sws_context
    /\ video_stream_index = r.video_stream_index
    /\ frame_buffer = r.frame_buffer
    /\ audio_codec_context = r.audio_codec_context
    /\ audio_stream_index = r.audio_stream_index
    /\ audio_frame = r.audio_frame
    /\ decoder_initialized = r.decoder_initialized
    /\ frame_rate = r.frame_rate
    /\ target_display_fps = r.target_display_fps
    /\ audio_playback_enabled = r.audio_playback_enabled
    /\ audio_stream_ready = r.audio_stream_ready
    /\ audio_thread_running = r.audio_thread_running
    /\ audio_file_path = r.audio_file_path

PlayerInit ==
    /\ initialized = FALSE /\ playing = FALSE
    /\ volume = 100 /\ muted = FALSE
    /\ playback_volume = InitialPlaybackVolume
    /\ audio_player = FALSE
    /\ \E fps \in IndeterminateFps : InitFrom(Constructed(fps))
    /\ audio_thread = NoThread
    /\ threads = [t \in ThreadIds |-> NoThreadObject]
    /\ rpc = "idle" /\ crashed = FALSE
    /\ lastCall = OtherCall
    /\ fps_limit_requested = FALSE

RenderReady == rpc = "idle" /\ ~crashed

\* the fields a load can change, taken from the record a method returns
Assign(r) ==
    /\ current_media' = r.current_media /\ media_type' = r.media_type
    /\ has_video' = r.has_video /\ has_audio' = r.has_audio
    /\ image_data' = r.image_data /\ format_context' = r.format_context
    /\ codec_context' = r.codec_context /\ frame' = r.frame
    /\ rgb_frame' = r.rgb_frame /\ sws_context' = r.sws_context
    /\ video_stream_index' = r.video_stream_index
    /\ frame_buffer' = r.frame_buffer
    /\ audio_codec_context' = r.audio_codec_context
    /\ audio_stream_index' = r.audio_stream_index
    /\ audio_frame' = r.audio_frame
    /\ decoder_initialized' = r.decoder_initialized
    /\ frame_rate' = r.frame_rate
    /\ target_display_fps' = r.target_display_fps
    /\ audio_playback_enabled' = r.audio_playback_enabled
    /\ audio_stream_ready' = r.audio_stream_ready
    /\ audio_thread_running' = r.audio_thread_running
    /\ audio_file_path' = r.audio_file_path

Initialize(pulse_ok) ==
    /\ RenderReady
    /\ IF initialized THEN UNCHANGED audio_player
       ELSE audio_player' = pulse_ok     \* reset() when PulseAudio::initialize fails
    /\ playback_volume' = IF initialized THEN playback_volume
                          ELSE InitialPlaybackVolume
    /\ initialized' = TRUE
    /\ lastCall' = OtherCall
    /\ UNCHANGED <<playing, current_media, media_type, has_video, has_audio,
                   image_data, format_context, codec_context, frame, rgb_frame,
                   sws_context, video_stream_index, frame_buffer,
                   audio_codec_context, audio_stream_index, audio_frame,
                   decoder_initialized, frame_rate, target_display_fps,
                   volume, muted, audio_playback_enabled, audio_stream_ready,
                   audio_thread, audio_thread_running, audio_file_path,
                   threads, rpc, crashed, fps_limit_requested>>

\* audio_thread_ = std::make_unique<std::thread>(...): the new thread runs, then
\* the handle's previous std::thread is destroyed; destroying a joinable
\* std::thread calls std::terminate.
LoadMedia(p, fail) ==
    /\ RenderReady
    /\ LET r == load_media(Fields, p, fail)
           new == CHOOSE t \in ThreadIds : threads[t].pc = "none"
       IN /\ Assign(r)
          /\ IF r.spawn
             THEN /\ threads' = [threads EXCEPT ![new] = [pc |-> "open", file |-> NoPath]]
                  /\ audio_thread' = new
                  /\ crashed' = (audio_thread # NoThread)
             ELSE UNCHANGED <<threads, audio_thread, crashed>>
          \* line 406: audio_player_->set_playback_volume(volume_)
          /\ playback_volume' = IF r.spawn THEN set_playback_volume(volume)
                                ELSE playback_volume
          /\ lastCall' = [op  |-> IF r.spawn /\ audio_thread # NoThread
                                  THEN "load_media_terminated" ELSE "load_media",
                          arg |-> p, ret |-> r.ret]
    /\ UNCHANGED <<initialized, playing, volume, muted, audio_player, rpc,
                   fps_limit_requested>>

Play ==
    /\ RenderReady
    /\ playing' = IF initialized /\ has_video THEN TRUE ELSE playing
    /\ lastCall' = OtherCall
    /\ UNCHANGED <<initialized, current_media, media_type, has_video, has_audio,
                   image_data, format_context, codec_context, frame, rgb_frame,
                   sws_context, video_stream_index, frame_buffer,
                   audio_codec_context, audio_stream_index, audio_frame,
                   decoder_initialized, frame_rate, target_display_fps,
                   volume, muted, playback_volume, audio_player,
                   audio_playback_enabled,
                   audio_stream_ready, audio_thread, audio_thread_running,
                   audio_file_path, threads, rpc, crashed, fps_limit_requested>>

\* pause() and stop() differ only in current_time_, which nothing reads
Halt ==
    /\ RenderReady
    /\ playing' = FALSE
    /\ lastCall' = OtherCall
    /\ UNCHANGED <<initialized, current_media, media_type, has_video, has_audio,
                   image_data, format_context, codec_context, frame, rgb_frame,
                   sws_context, video_stream_index, frame_buffer,
                   audio_codec_context, audio_stream_index, audio_frame,
                   decoder_initialized, frame_rate, target_display_fps,
                   volume, muted, playback_volume, audio_player,
                   audio_playback_enabled,
                   audio_stream_ready, audio_thread, audio_thread_running,
                   audio_file_path, threads, rpc, crashed, fps_limit_requested>>

Pause == Halt

Stop == Halt

\* set_volume stores its argument as it is
Unclamped(v) == v

ClampVolume(v) == Max(0, Min(100, v))

SetVolume(v) ==
    /\ RenderReady
    /\ volume' = ClampVolume(v)
    /\ playback_volume' = IF audio_player /\ audio_playback_enabled
                          THEN set_playback_volume(volume')
                          ELSE playback_volume
    /\ lastCall' = OtherCall
    /\ UNCHANGED <<initialized, playing, current_media, media_type, has_video,
                   has_audio, image_data, format_context, codec_context, frame,
                   rgb_frame, sws_context, video_stream_index, frame_buffer,
                   audio_codec_context, audio_stream_index, audio_frame,
                   decoder_initialized, frame_rate, target_display_fps,
                   muted, audio_player, audio_playback_enabled,
                   audio_stream_ready, audio_thread, audio_thread_running,
                   audio_file_path, threads, rpc, crashed, fps_limit_requested>>

SetMuted(m) ==
    /\ RenderReady
    /\ muted' = m
    /\ lastCall' = OtherCall
    /\ UNCHANGED <<initialized, playing, current_media, media_type, has_video,
                   has_audio, image_data, format_context, codec_context, frame,
                   rgb_frame, sws_context, video_stream_index, frame_buffer,
                   audio_codec_context, audio_stream_index, audio_frame,
                   decoder_initialized, frame_rate, target_display_fps,
                   volume, playback_volume, audio_player,
                   audio_playback_enabled,
                   audio_stream_ready, audio_thread, audio_thread_running,
                   audio_file_path, threads, rpc, crashed, fps_limit_requested>>

\* fps > 0: the requested rate; otherwise the native rate as it is now
DisplayFpsFor(fps, native) == IF fps > 0 THEN fps ELSE native

SetFpsLimit(fps) ==
    /\ RenderReady
    /\ target_display_fps' = DisplayFpsFor(fps, frame_rate)
    /\ fps_limit_requested' = (fps_limit_requested \/ fps > 0)
    /\ lastCall' = OtherCall
    /\ UNCHANGED <<initialized, playing, current_media, media_type, has_video,
                   has_audio, image_data, format_context, codec_context, frame,
                   rgb_frame, sws_context, video_stream_index, frame_buffer,
                   audio_codec_context, audio_stream_index, audio_frame,
                   decoder_initialized, frame_rate, volume, muted,
                   playback_volume,
                   audio_player, audio_playback_enabled,
                   audio_stream_ready, audio_thread, audio_thread_running,
                   audio_file_path, threads, rpc, crashed>>

\* cleanup() after the audio thread is dealt with (lines 75-85)
CleanupRest ==
    LET r == free_image_data(cleanup_ffmpeg_decoder(Fields)) IN
    /\ Assign([r EXCEPT !.audio_stream_ready = FALSE,     \* destroy_audio_stream
                        !.audio_thread_running = FALSE])
    /\ audio_player' = FALSE           \* the sink object is destroyed
    /\ playback_volume' = InitialPlaybackVolume
    /\ initialized' = FALSE
    /\ playing' = FALSE
    /\ rpc' = "idle"
    /\ lastCall' = OtherCall

\* cleanup(), up to the join: with the flag set it clears it and joins
Cleanup ==
    /\ RenderReady
    /\ IF audio_thread_running
       THEN /\ audio_thread_running' = FALSE
            /\ rpc' = "joining"
            /\ UNCHANGED <<initialized, playing, current_media, media_type,
                           has_video, has_audio, image_data, format_context,
                           codec_context, frame, rgb_frame, sws_context,
                           video_stream_index, frame_buffer, audio_codec_context,
                           audio_stream_index, audio_frame, decoder_initialized,
                           frame_rate, target_display_fps, audio_player,
                           playback_volume,
                           audio_playback_enabled, audio_stream_ready,
                           audio_file_path, lastCall>>
       ELSE CleanupRest
    /\ UNCHANGED <<volume, muted, audio_thread, threads, crashed,
                   fps_limit_requested>>

\* join() returns once the thread function has returned; then reset()
CleanupJoin ==
    /\ rpc = "joining" /\ ~crashed
    /\ audio_thread # NoThread => threads[audio_thread].pc = "exited"
    /\ threads' = IF audio_thread = NoThread THEN threads
                  ELSE [threads EXCEPT ![audio_thread] = NoThreadObject]
    /\ audio_thread' = NoThread
    /\ CleanupRest
    /\ UNCHANGED <<volume, muted, crashed, fps_limit_requested>>

(***************************************************************************)
(* audio_thread_function.  The thread opens the file named by              *)
(* audio_file_path_ with contexts of its own, then loops: test the         *)
(* keep-running flag, test playing_ and muted_, read a packet, decode and  *)
(* write it.  The two sleeps (10 ms when idle, 100 us after a packet) are  *)
(* part of the step that leads back to the top of the loop.                *)
(***************************************************************************)
ReadOutcomes == {"eof", "other", "audio", "undecodable"}

AudioStep(t, pc2, file2) ==
    /\ ~crashed
    /\ threads' = [threads EXCEPT ![t] = [pc |-> pc2, file |-> file2]]
    /\ UNCHANGED <<initialized, playing, current_media, media_type, has_video,
                   has_audio, image_data, format_context, codec_context, frame,
                   rgb_frame, sws_context, video_stream_index, frame_buffer,
                   audio_codec_context, audio_stream_index, audio_frame,
                   decoder_initialized, frame_rate, target_display_fps,
                   volume, muted, playback_volume, audio_player,
                   audio_playback_enabled,
                   audio_stream_ready, audio_thread, audio_thread_running,
                   audio_file_path, rpc, crashed, lastCall, fps_limit_requested>>

\* lines 837-912: open the file, find the audio stream, open the codec
AudioOpen(t, ok) ==
    /\ threads[t].pc = "open"
    /\ AudioStep(t, IF ok THEN "while" ELSE "exited", audio_file_path)

\* the loop test without the keep-running flag: while (packet)
AudioWhileUnchecked(t) ==
    /\ threads[t].pc = "while"
    /\ AudioStep(t, "if_playing", threads[t].file)

\* line 916: while (audio_thread_running_ && packet)
AudioWhile(t) ==
    /\ threads[t].pc = "while"
    /\ AudioStep(t, IF audio_thread_running THEN "if_playing" ELSE "exited",
                 threads[t].file)

\* line 918, left operand: !playing_
AudioIfPlaying(t) ==
    /\ threads[t].pc = "if_playing"
    /\ AudioStep(t, IF ~playing THEN "while" ELSE "if_muted", threads[t].file)

\* line 918, right operand: muted_
AudioIfMuted(t) ==
    /\ threads[t].pc = "if_muted"
    /\ AudioStep(t, IF muted THEN "while" ELSE "read", threads[t].file)

\* lines 924-940: av_read_frame, and the decode of an audio packet
AudioRead(t, outcome) ==
    /\ threads[t].pc = "read"
    /\ AudioStep(t, IF outcome = "audio" THEN "write" ELSE "while", threads[t].file)

\* line 937: process_audio_frame_data, which ends in write_audio_data
AudioWrite(t) ==
    /\ threads[t].pc = "write"
    /\ AudioStep(t, "while", threads[t].file)

AudioThread(t) ==
    \/ \E ok \in BOOLEAN : AudioOpen(t, ok)
    \/ AudioWhile(t)
    \/ AudioIfPlaying(t)
    \/ AudioIfMuted(t)
    \/ \E outcome \in ReadOutcomes : AudioRead(t, outcome)
    \/ AudioWrite(t)

\* the library calls of a load of `p` whose failure is tried
FailuresFor(p) ==
    IF ~FileExists(p) THEN {"none"}
    ELSE CASE detect_media_type(p) = "VIDEO" ->
                  IF FirstStream(StreamKinds(p), "video") = -1
                  THEN {"none", "open_input"}
                  ELSE IF FirstStream(StreamKinds(p), "audio") # -1
                  THEN SetupFailures \ {"decode"}
                  ELSE {"none", "stream_info", "open_codec", "sws"}
           [] detect_media_type(p) = "IMAGE" ->
                  {"none", "open_input", "decode"}
           [] OTHER -> {"none"}

(***************************************************************************)
(* extract_next_frame.  The loaded video is a finite sequence of packets:  *)
(* "video" is a packet of the selected video stream that the decoder       *)
(* accepts, "corrupt" one that avcodec_send_packet rejects, "other" a      *)
(* packet of another stream.  The decoder hands a frame back once it holds *)
(* more than `delay` frames (avcodec_receive_frame fails until then), the  *)
(* oldest first; nothing in extract_next_frame drains or flushes it.       *)
(* `seekable` says whether av_seek_frame moves the demuxer (its result is  *)
(* not looked at).  One invocation is a sequence of steps: the call, one   *)
(* step per packet read, the failed read that ends the loop, the rewind.   *)
(***************************************************************************)
MicrosPerSecond == 1000000

\* `wait_time < 0.1`, in microseconds
MaxWait == 100000

ClockStart == 1000000

MaxPackets == 3

MaxCalls == 4

MaxDepth == 3

PacketKinds == {"video", "corrupt", "other"}

Delays == {0, 1}

\* time between the return of one call and the next call
CallGaps == {20000, 100000}

VideoFiles == {"a.mp4", "hi.webm"}

\* the packet kinds a file can hold: "other" needs a second stream
KindsOf(p) == IF Len(StreamKinds(p)) > 1 THEN PacketKinds
              ELSE PacketKinds \ {"other"}

StreamsOf(p) ==
    { [file |-> p, packets |-> c, seekable |-> k, delay |-> d] :
          c \in UNION { [1..n -> KindsOf(p)] : n \in 1..MaxPackets },
          k \in BOOLEAN, d \in Delays }

NoStream == [file |-> NoPath, packets |-> <<>>, seekable |-> FALSE, delay |-> 0]

NoReturn == [ok |-> FALSE, pts |-> 0, wrapped |-> FALSE, pass |-> 0,
             native |-> FALSE, ahead |-> 0, slept |-> 0]

\* duration of one frame at `rate` frames per second
FramePeriod(rate) == MicrosPerSecond \div rate

\* frame_->pts * av_q2d(time_base) of what packet i decodes to
PacketPts(st, i, rate) ==
    FramePeriod(rate) * Cardinality({j \in 1..(i - 1) : st.packets[j] # "other"})

\* the first PTS the stream carries
FirstPts(st, rate) ==
    LET video == {i \in DOMAIN st.packets : st.packets[i] = "video"} IN
    PacketPts(st, CHOOSE i \in video : \A j \in video : i <= j, rate)

\* lines 722-735: how long a decoded frame is held back
PacingSleep(fps_limiting_active, expected_time, current) ==
    IF fps_limiting_active THEN 0
    ELSE IF current < expected_time
         THEN LET wait_time == expected_time - current IN
              IF wait_time > 0 /\ wait_time < MaxWait THEN wait_time ELSE 0
         ELSE 0

\* av_seek_frame(format_context_, video_stream_index_, 0, AVSEEK_FLAG_BACKWARD)
av_seek_frame(st, pos) == IF st.seekable THEN 0 ELSE pos

\* lines 697-709: the entry of a call made `gap` after the previous return
ExtractCall(gap) ==
    /\ xpc = "idle" /\ calls < MaxCalls
    /\ now' = now + gap
    /\ calls' = calls + 1
    /\ IF ~decoder_initialized
       THEN /\ last' = NoReturn
            /\ UNCHANGED <<current_real_time, playback_start_time, video_pts,
                           xpc, depth>>
       ELSE /\ current_real_time' = now'
            /\ IF playback_start_time = 0
               THEN playback_start_time' = now' /\ video_pts' = 0
               ELSE UNCHANGED <<playback_start_time, video_pts>>
            /\ xpc' = "read"
            /\ depth' = 1
            /\ UNCHANGED last
    /\ UNCHANGED <<stream, read_pos, decoder_queue, pass_frames>>

\* lines 714-753: one turn of the packet loop
ReadPacket ==
    /\ xpc = "read" /\ read_pos < Len(stream.packets)
    /\ read_pos' = read_pos + 1
    /\ LET packet    == stream.packets[read_pos + 1]
           sent      == IF packet = "video"
                        THEN Append(decoder_queue,
                                    PacketPts(stream, read_pos + 1, frame_rate))
                        ELSE decoder_queue
           received  == packet = "video" /\ Len(sent) > stream.delay
           frame_pts == Head(sent)
           fps_limiting_active == target_display_fps < frame_rate
           expected_time == playback_start_time + frame_pts
           slept     == PacingSleep(fps_limiting_active, expected_time,
                                    current_real_time)
       IN IF received
          THEN /\ decoder_queue' = Tail(sent)
               /\ now' = now + slept
               /\ video_pts' = frame_pts
               /\ pass_frames' = [pass_frames EXCEPT !.cur = @ + 1]
               /\ last' = [ok |-> TRUE, pts |-> frame_pts,
                           wrapped |-> depth > 1, pass |-> pass_frames.prev,
                           native |-> ~fps_limiting_active,
                           ahead |-> Max(0, expected_time - current_real_time),
                           slept |-> slept]
               /\ xpc' = "idle"
               /\ depth' = 0
          ELSE /\ decoder_queue' = sent
               /\ UNCHANGED <<now, video_pts, pass_frames, last, xpc, depth>>
    /\ UNCHANGED <<stream, current_real_time, playback_start_time, calls>>

\* line 714: av_read_frame fails, which ends the packet loop
EndOfStream ==
    /\ xpc = "read" /\ read_pos = Len(stream.packets)
    /\ xpc' = "rewind"
    /\ UNCHANGED <<now, stream, read_pos, decoder_queue, current_real_time,
                   playback_start_time, video_pts, depth, pass_frames, calls,
                   last>>

\* the anchor of the previous pass is kept
KeptAnchor(anchor, current) == anchor

\* line 761: playback_start_time_ = current_real_time
LoopAnchor(anchor, current) == current

\* lines 757-763: seek, reset the clock, call extract_next_frame again
Rewind ==
    /\ xpc = "rewind"
    /\ read_pos' = av_seek_frame(stream, read_pos)
    /\ video_pts' = 0
    /\ playback_start_time' = LoopAnchor(playback_start_time, current_real_time)
    /\ current_real_time' = now               \* the nested invocation's local
    /\ depth' = Min(depth + 1, MaxDepth)
    /\ pass_frames' = [cur |-> 0, prev |-> pass_frames.cur]
    /\ xpc' = "read"
    /\ UNCHANGED <<now, stream, decoder_queue, calls, last>>

(***************************************************************************)
(* should_display_frame.  last_display_time is a function-local static:    *)
(* one variable for all players, set to the clock by the first call made   *)
(* on any of them.  The interval is 1000000.0 / target_display_fps_        *)
(* converted to a whole number of microseconds.                            *)
(***************************************************************************)
Players == {1, 2}

Unset == -1

GateRates == {3, 4}

GateHorizon == 1300000

LateStep == 150000

NoPoll == [player |-> 0, ret |-> FALSE, elapsed |-> 0, at |-> Unset]

\* static_cast<int64_t>(1000000.0 / target_display_fps_)
TargetInterval(fps) == MicrosPerSecond \div fps

\* a gate that opens at every call
GateAlwaysOpen(last_time, t, fps) ==
    [ret |-> TRUE, last |-> t,
     elapsed |-> IF last_time = Unset THEN 0 ELSE t - last_time]

\* the value returned and the static afterwards, for a call at time t
should_display_frame(last_time, t, fps) ==
    LET last0 == IF last_time = Unset THEN t ELSE last_time
        time_since_last_display == t - last0
    IN IF time_since_last_display >= TargetInterval(fps)
       THEN [ret |-> TRUE,  last |-> t,     elapsed |-> time_since_last_display]
       ELSE [ret |-> FALSE, last |-> last0, elapsed |-> time_since_last_display]

\* one call of should_display_frame on player p
Poll(p) ==
    /\ continuous => p = 1
    /\ LET g == should_display_frame(last_display_time, now, gate_fps[p]) IN
       /\ last_display_time' = g.last
       /\ trues' = [trues EXCEPT ![p] = IF g.ret THEN @ + 1 ELSE @]
       /\ gate_last' = [player |-> p, ret |-> g.ret, elapsed |-> g.elapsed,
                        at |-> now]
    /\ first_poll' = IF first_poll = Unset THEN now ELSE first_poll
    /\ UNCHANGED <<now, gate_fps, continuous>>

\* the instants at which a gate can change its answer, and one late instant
NextInstants ==
    IF last_display_time = Unset THEN {now + LateStep}
    ELSE { last_display_time + TargetInterval(gate_fps[p]) - 1 : p \in Players }
         \cup { last_display_time + TargetInterval(gate_fps[p]) : p \in Players }
         \cup { now + LateStep }

\* Time passes.  A gate polled continuously is polled at every instant: the
\* clock moves on only from an instant at which it was polled, and no
\* further than the next instant at which its answer can change.
Advance(t) ==
    /\ t > now /\ t <= ClockStart + GateHorizon
    /\ continuous =>
           /\ gate_last.at = now
           /\ t <= last_display_time + TargetInterval(gate_fps[1])
    /\ now' = t
    /\ UNCHANGED gateVars

(***************************************************************************)
(* Application::update_loop, background mode.  Every screen instance holds *)
(* a player with a video loaded by initialize_screen_instance, which ends  *)
(* with set_fps_limit(config.fps).  One iteration: take the time, visit    *)
(* each instance (ask its gate, then decode one frame, shown or            *)
(* discarded), sleep, take the time again.  The videos are long enough not *)
(* to end within the horizon and their decoders hold no frame back.        *)
(***************************************************************************)
MillisPerSecond == 1000

DefaultAppFps == 30

NativeVideoAppFps == 60

MinAppFps == 1

MaxAppFps == 120

ConfigFps == {-1, 15}

NativeRates == {25, 50}

MaxScreens == 2

LoopHorizon == 400000

\* what rendering or discarding one frame costs
WorkTimes == {0, 4000}

\* background branch of calculate_effective_fps; is_video[i] is is_video()
calculate_effective_fps(fps, is_video) ==
    LET explicit == {fps[i] : i \in {j \in DOMAIN fps : fps[j] > 0}}
        highest  == CHOOSE m \in explicit \cup {DefaultAppFps} :
                        \A x \in explicit \cup {DefaultAppFps} : x <= m
        effective_fps ==
            IF explicit # {} THEN highest
            ELSE IF \E i \in DOMAIN fps : is_video[i] THEN NativeVideoAppFps
            ELSE DefaultAppFps
    IN Max(MinAppFps, Min(MaxAppFps, effective_fps))

\* frame_duration_ as the loop compares it, in microseconds
FrameDurationMicros == frame_duration * (MicrosPerSecond \div MillisPerSecond)

\* line 306: auto now = steady_clock::now()
LoopTop ==
    /\ loop_pc = "top" /\ now < ClockStart + LoopHorizon
    /\ iter_now' = now
    /\ cursor' = 1
    /\ loop_pc' = "players"
    /\ UNCHANGED <<now, last_frame_time, frame_duration, native_fps, start_time,
                   decoded, gateVars>>

\* lines 408-458: one instance; get_video_frame_cpu is one extract_next_frame
InstanceStep(work) ==
    /\ loop_pc = "players"
    /\ LET i == cursor
           g == should_display_frame(last_display_time, now, gate_fps[i])
           start == IF start_time[i] = 0 THEN now ELSE start_time[i]
           frame_pts == decoded[i] * FramePeriod(native_fps[i])
           slept == PacingSleep(gate_fps[i] < native_fps[i], start + frame_pts, now)
       IN /\ last_display_time' = g.last
          /\ trues' = [trues EXCEPT ![i] = IF g.ret THEN @ + 1 ELSE @]
          /\ gate_last' = [player |-> i, ret |-> g.ret, elapsed |-> g.elapsed,
                           at |-> now]
          /\ first_poll' = IF first_poll = Unset THEN now ELSE first_poll
          /\ start_time' = [start_time EXCEPT ![i] = start]
          /\ decoded' = [decoded EXCEPT ![i] = @ + 1]
          /\ now' = now + slept + work
          /\ IF i = Len(native_fps)
             THEN loop_pc' = "sleep" /\ cursor' = 0
             ELSE loop_pc' = "players" /\ cursor' = i + 1
    /\ UNCHANGED <<iter_now, last_frame_time, frame_duration, native_fps,
                   gate_fps, continuous>>

\* lines 467-473: the sleep that ends an iteration
LoopSleep ==
    /\ loop_pc = "sleep"
    /\ LET elapsed_since_last_frame == iter_now - last_frame_time
           sleep_time == IF elapsed_since_last_frame < FrameDurationMicros
                         THEN FrameDurationMicros - elapsed_since_last_frame
                         ELSE 0
       IN /\ now' = now + sleep_time
          /\ last_frame_time' = now + sleep_time
    /\ loop_pc' = "top"
    /\ UNCHANGED <<cursor, iter_now, frame_duration, native_fps, start_time,
                   decoded, gateVars>>

(***************************************************************************)
(* The compositors.  A renderer places a source of sw x sh pixels in a     *)
(* destination of dw x dh pixels according to the ScalingMode and copies   *)
(* pixels: WaylandVideoRenderer::render_frame_data_shm,                    *)
(* WaylandImageRenderer::render_image_shm,                                 *)
(* X11VideoRenderer::render_rgb_frame_x11 and SDL2WindowDisplay's          *)
(* render_current_texture.  The aspect ratios are IEEE-754 numbers,        *)
(* binary64 (double) in the Wayland video and X11 renderers and binary32   *)
(* (float) in the Wayland image and SDL2 renderers.  For the sizes used    *)
(* here a rounded ratio compares as the exact one does, and a truncated    *)
(* product or quotient is the whole part of the exact value except for the *)
(* quotients listed in Below32 and Below64, where rounding the ratio       *)
(* leaves the quotient just under a whole number.                          *)
(***************************************************************************)
Renderers == {"wayland_video", "wayland_image", "x11_video", "sdl2_window"}

ScalingModes == {"STRETCH", "FIT", "FILL", "DEFAULT"}

\* source sizes <<width, height>>
SrcSizes == {<<1, 1>>, <<2, 1>>, <<1, 2>>, <<3, 2>>, <<1, 7>>, <<9, 7>>}

\* a frame wide enough for the index arithmetic of the Wayland video
\* renderer to leave the range of int
WideSizes == {<<65536, 1>>}

\* destination sizes <<width, height>>
DstSizes == {<<0, 2>>, <<2, 0>>, <<2, 2>>, <<3, 1>>, <<1, 3>>, <<1, 7>>,
             <<1, 8>>, <<9, 7>>, <<4, 3>>, <<3, 2>>}

\* <<a, n, d>> with (int)(a / ((float)n / d)) one less than a*d/n
Below32 == {<<a, 1, 7>> : a \in {1, 2, 4, 7, 8, 9}}

\* <<a, n, d>> with (int)(a / ((double)n / d)) one less than a*d/n
Below64 == {<<9, 9, 7>>}

\* (int)(a / aspect), the aspect being n / d rounded
TruncDiv(a, n, d, below) ==
    (a * d) \div n - (IF <<a, n, d>> \in below THEN 1 ELSE 0)

\* (int)(a * aspect), the aspect being n / d rounded
TruncMul(a, n, d) == (a * n) \div d

IntMax == 2147483647

\* a / 2 of C++, which rounds toward zero
Half(a) == IF a >= 0 THEN a \div 2 ELSE -((-a) \div 2)

\* src_aspect > dst_aspect; a zero dh makes dst_aspect infinite or NaN
Wider(sw, sh, dw, dh) == dh # 0 /\ sw * dh > dw * sh

\* a placement that covers the destination and more
Oversized(sw, sh, dw, dh, below) == [x |-> -1, y |-> -1, w |-> dw + 2, h |-> dh + 2]

\* a placement of half the destination
Halved(sw, sh, dw, dh) == [x |-> 0, y |-> 0, w |-> dw \div 2, h |-> dh \div 2]

StretchRect(sw, sh, dw, dh) == [x |-> 0, y |-> 0, w |-> dw, h |-> dh]

FitRect(sw, sh, dw, dh, below) ==
    IF Wider(sw, sh, dw, dh)
    THEN LET h == TruncDiv(dw, sw, sh, below)
         IN [x |-> 0, y |-> Half(dh - h), w |-> dw, h |-> h]
    ELSE LET w == TruncMul(dh, sw, sh)
         IN [x |-> Half(dw - w), y |-> 0, w |-> w, h |-> dh]

FillRect(sw, sh, dw, dh, below) ==
    IF Wider(sw, sh, dw, dh)
    THEN LET w == TruncMul(dh, sw, sh)
         IN [x |-> Half(-(w - dw)), y |-> 0, w |-> w, h |-> dh]
    ELSE LET h == TruncDiv(dw, sw, sh, below)
         IN [x |-> 0, y |-> Half(-(h - dh)), w |-> dw, h |-> h]

\* the source at its own size, centred
OriginalRect(sw, sh, dw, dh) ==
    [x |-> Half(dw - sw), y |-> Half(dh - sh), w |-> sw, h |-> sh]

\* wayland_video_renderer.cpp:421-426, for every mode but FILL
ClampRect(r, dw, dh) ==
    LET x == Max(r.x, 0)
        y == Max(r.y, 0)
    IN [x |-> x, y |-> y,
        w |-> IF r.w + x > dw THEN dw - x ELSE r.w,
        h |-> IF r.h + y > dh THEN dh - y ELSE r.h]

\* offset and size of the rendered picture in the destination
Placement(r, mode, sw, sh, dw, dh) ==
    CASE r = "wayland_video" ->
             CASE mode = "STRETCH" -> ClampRect(StretchRect(sw, sh, dw, dh), dw, dh)
               [] mode = "FIT" -> ClampRect(FitRect(sw, sh, dw, dh, Below64), dw, dh)
               [] mode = "FILL" -> FillRect(sw, sh, dw, dh, Below64)
               [] OTHER -> ClampRect(OriginalRect(sw, sh, dw, dh), dw, dh)
      [] r = "x11_video" ->
             CASE mode = "FIT" -> FitRect(sw, sh, dw, dh, Below64)
               [] mode = "DEFAULT" -> OriginalRect(sw, sh, dw, dh)
               [] OTHER -> StretchRect(sw, sh, dw, dh)
      [] OTHER ->          \* wayland_image and sdl2_window: the same switch
             CASE mode = "STRETCH" -> StretchRect(sw, sh, dw, dh)
               [] mode = "FILL" -> FillRect(sw, sh, dw, dh, Below32)
               [] OTHER -> FitRect(sw, sh, dw, dh, Below32)

\* values of a destination pixel: a source pixel <<x, y>>, or
Clear == <<-1, -1>>        \* zeroed by the renderer

Untouched == <<-2, -2>>    \* as it was before the call

Clip(v, n) == Max(0, Min(v, n - 1))

\* a * b does not fit the 32-bit int of the pixel loops
Overflows(a, b) == b > 0 /\ a > IntMax \div b

\* what (a * b) / c is once the signed product has overflowed, which is
\* undefined: with a wrapping product, 65534 * 65536 / 131072 is -1 and
\* 65535 * 65536 / 131072 is 0
WildOutcomes == {-1, 0}

\* (a * b) / c in int
Scaled(a, b, c, wild) == IF Overflows(a, b) THEN wild ELSE (a * b) \div c

\* the source pixel copied to pixel <<x, y>> of a picture rendered at w x h
NearestPixel(x, y, w, h, sw, sh, flip, wild) ==
    LET sy == Scaled(y, sh, h, wild)
    IN <<Min(Scaled(x, sw, w, wild), sw - 1),
         Clip(IF flip THEN sh - 1 - sy ELSE sy, sh)>>

\* apply_scaling_x11 in FILL mode: the source is cropped to the aspect of
\* the destination, then scaled
CroppedPixel(x, y, w, h, sw, sh, flip) ==
    LET wide == Wider(sw, sh, w, h)
        cw == IF wide THEN TruncMul(sh, w, h) ELSE sw
        ch == IF wide THEN sh ELSE TruncDiv(sw, w, h, Below64)
        cx == IF wide THEN Half(sw - cw) ELSE 0
        cy == IF wide THEN 0 ELSE Half(sh - ch)
        yy == (y * ch) \div h
    IN <<Clip(cx + (x * cw) \div w, sw),
         Clip(IF flip THEN cy + (ch - 1 - yy) ELSE cy + yy, sh)>>

SourcePixel(r, mode, x, y, w, h, sw, sh, flip, wild) ==
    CASE r = "x11_video" ->
             IF w = sw /\ h = sh THEN <<x, y>>       \* drawn unscaled
             ELSE IF mode = "FILL"
                  THEN CroppedPixel(x, y, w, h, sw, sh, flip)
                  ELSE NearestPixel(x, y, w, h, sw, sh, flip, wild)
      [] r = "sdl2_window" -> NearestPixel(x, y, w, h, sw, sh, FALSE, wild)
      [] OTHER -> NearestPixel(x, y, w, h, sw, sh, flip, wild)

\* what a pixel outside the rendered picture holds after the call
Background(r, mode) ==
    IF r = "x11_video" /\ mode # "FIT" THEN Untouched ELSE Clear

DstPixels(dw, dh) == (0..(dw - 1)) \X (0..(dh - 1))

\* the destination and a margin of one pixel around it
Margin(dw, dh) == (-1..dw) \X (-1..dh)

\* the test of the pixel loops that passes over a pixel of the picture
\* (the X server and SDL clip a picture to the window in the same way)
Skipped(dx, dy, dw, dh) == dx < 0 \/ dx >= dw \/ dy < 0 \/ dy >= dh

\* the pixels, of the destination and around it, that a call writes
Written(r, mode, sw, sh, dw, dh) ==
    LET rect == Placement(r, mode, sw, sh, dw, dh) IN
    {p \in Margin(dw, dh) :
        /\ p[1] - rect.x \in 0..(rect.w - 1)
        /\ p[2] - rect.y \in 0..(rect.h - 1)
        /\ ~Skipped(p[1], p[2], dw, dh)}

\* the destination after the pixel loop
Buffer(r, mode, sw, sh, dw, dh, flip, wild) ==
    LET rect == Placement(r, mode, sw, sh, dw, dh)
        written == Written(r, mode, sw, sh, dw, dh)
    IN [p \in DstPixels(dw, dh) |->
           IF p \in written
           THEN SourcePixel(r, mode, p[1] - rect.x, p[2] - rect.y, rect.w,
                            rect.h, sw, sh, flip, wild)
           ELSE Background(r, mode)]

NoRect == [x |-> 0, y |-> 0, w |-> 0, h |-> 0]

NoComposition ==
    [renderer |-> "none", mode |-> "STRETCH", sw |-> 0, sh |-> 0, dw |-> 0,
     dh |-> 0, windowed |-> FALSE, src_null |-> FALSE, ret |-> FALSE,
     rect |-> NoRect, written |-> {}, buffer |-> <<>>, wild |-> 0]

\* The outcome of one call of a renderer's entry point.  `lib_ok` is the
\* outcome of XCreateImage and XPutImage, which only the X11 renderer calls.
Composition(r, mode, sw, sh, dw, dh, windowed_mode, src_null, lib_ok, wild) ==
    LET done == ~src_null /\ (r = "x11_video" => lib_ok)
    IN [renderer |-> r, mode |-> mode, sw |-> sw, sh |-> sh, dw |-> dw,
        dh |-> dh, windowed |-> windowed_mode, src_null |-> src_null,
        ret |-> done,
        rect |-> IF src_null THEN NoRect
                 ELSE Placement(r, mode, sw, sh, dw, dh),
        written |-> IF done THEN Written(r, mode, sw, sh, dw, dh) ELSE {},
        buffer |-> IF done
                   THEN Buffer(r, mode, sw, sh, dw, dh, windowed_mode, wild)
                   ELSE [p \in DstPixels(dw, dh) |-> Untouched],
        wild |-> wild]

\* A renderer is set up on a surface of dw x dh: initialize,
\* set_scaling_mode and set_windowed_mode.
Configure(r, mode, dst, windowed_mode) ==
    /\ composed = NoComposition
    /\ composed' = [NoComposition EXCEPT !.renderer = r, !.mode = mode,
                                         !.dw = dst[1], !.dh = dst[2],
                                         !.windowed = windowed_mode]

\* the sizes of the sources a renderer is given
FrameSizes(r) == IF r = "wayland_video" THEN SrcSizes \cup WideSizes ELSE SrcSizes

\* One frame or image is rendered on the surface.
Compose(src, src_null, lib_ok, wild) ==
    /\ composed.renderer \in Renderers
    /\ src \in FrameSizes(composed.renderer)
    /\ composed' = Composition(composed.renderer, composed.mode, src[1],
                               src[2], composed.dw, composed.dh,
                               composed.windowed, src_null, lib_ok, wild)

ComposeIdle == composed = NoComposition

(***************************************************************************)
(* MediaPlayer::process_audio_frame_data (media_player.cpp:965-1022).  A    *)
(* float sample is written in units of 2^-16: Num(n) is the float n/65536,  *)
(* which is exact for every n used here.                                   *)
(***************************************************************************)
RECURSIVE Pow2(_)
Pow2(k) == IF k = 0 THEN 1 ELSE 2 * Pow2(k - 1)
Unit == Pow2(16)
Scale == 32767
\* frame->data holds this many plane pointers
MaxPlanes == 8
\* the channel counts and the samples per channel of the frames converted
ChannelCounts == {1, 2}
SampleCounts == {1, 2}

Num(n) == <<"num", n>>
NaN == <<"nan", 0>>
PosInf == <<"inf", 1>>
NegInf == <<"inf", -1>>
\* 32769/65536 is a sample whose product with 32767 is not a float
SampleValues ==
    {Num(0), Num(1), Num(32769), Num(Unit), Num(Unit + 1), Num(-32769),
     Num(-98304), NaN, PosInf, NegInf}
\* what a read through a pointer that is not a plane pointer produces
Segv == <<"segv", 0>>
WildSamples == SampleValues \cup {Segv}

\* a < b on floats
FLess(a, b) ==
    CASE a = NaN \/ b = NaN -> FALSE
      [] a = PosInf -> FALSE
      [] b = NegInf -> FALSE
      [] a = NegInf -> TRUE
      [] b = PosInf -> TRUE
      [] OTHER -> a[2] < b[2]
\* std::min(a, b) is (b < a) ? b : a and std::max(a, b) is (a < b) ? b : a
FMin(a, b) == IF FLess(b, a) THEN b ELSE a
FMax(a, b) == IF FLess(a, b) THEN b ELSE a
Clamped(v) == FMax(Num(-Unit), FMin(Num(Unit), v))

\* the number of binary digits of a
RECURSIVE Digits(_)
Digits(a) == IF a = 0 THEN 0 ELSE 1 + Digits(a \div 2)
\* a rounded to a float significand of 24 digits, ties to even
RoundToFloat(a) ==
    LET q == Pow2(Max(Digits(a) - 24, 0))
        lo == a \div q
        rest == a % q
    IN  IF 2 * rest > q \/ (2 * rest = q /\ lo % 2 = 1)
        THEN (lo + 1) * q ELSE lo * q
\* the float product sample_val * 32767.0f of a clamped sample, in units of
\* 2^-16
Product(v) ==
    LET p == v[2] * Scale
    IN  IF p >= 0 THEN RoundToFloat(p) ELSE -RoundToFloat(-p)
\* static_cast<int16_t>: the fraction is discarded
ToInt16(p) == IF p >= 0 THEN p \div Unit ELSE -((-p) \div Unit)
Truncated(v) == ToInt16(Product(Clamped(v)))

NoFrame == [format |-> "none", channels |-> 0, nb_samples |-> 0, planes |-> <<>>]
\* the planar-float frames of a decoder: a few channels with every content,
\* and one more channel than frame->data has pointers, silent except for
\* one plane
FewChannels ==
    UNION {{[format |-> "FLTP", channels |-> c, nb_samples |-> n, planes |-> pl] :
              pl \in [1..c -> [1..n -> SampleValues]]} :
           c \in ChannelCounts, n \in SampleCounts}
ManyChannels ==
    {[format |-> "FLTP", channels |-> MaxPlanes + 1, nb_samples |-> 1,
      planes |-> [c \in 1..(MaxPlanes + 1) |->
                      [s \in 1..1 |-> IF c = hot THEN v ELSE Num(0)]]] :
       hot \in 1..(MaxPlanes + 1), v \in SampleValues}
\* a frame of a sample format the function has no conversion for
OtherFormat ==
    {[format |-> "U8", channels |-> c, nb_samples |-> n,
      planes |-> <<[s \in 1..(c * n) |-> Num(0)]>>] :
       c \in ChannelCounts, n \in SampleCounts}
AudioFrames == FewChannels \cup ManyChannels \cup OtherFormat

\* planes[ch][sample], ch and sample counted from 0: frame->data has
\* MaxPlanes entries, the pointer read behind them is no plane pointer
PlaneSample(f, ch, sample, wild) ==
    IF ch < MaxPlanes THEN f.planes[ch + 1][sample + 1] ELSE wild

NoOutput == [done |-> FALSE, crashed |-> FALSE, output |-> <<>>]
\* the output buffer the function hands to write_audio_data, as 16-bit
\* samples
Interleave(f, wild) ==
    [i \in 1..(f.nb_samples * f.channels) |->
        Truncated(PlaneSample(f, (i - 1) % f.channels,
                              (i - 1) \div f.channels, wild))]
Converted(f, wild) ==
    CASE f.format = "FLTP" ->
             IF f.channels > MaxPlanes /\ wild = Segv
             THEN [done |-> TRUE, crashed |-> TRUE, output |-> <<>>]
             ELSE [done |-> TRUE, crashed |-> FALSE,
                   output |-> Interleave(f, wild)]
      [] OTHER ->
             [done |-> TRUE, crashed |-> FALSE,
              output |-> [i \in 1..(f.nb_samples * f.channels) |-> 0]]

\* The audio thread converts the frame it received.
ProcessAudioFrame(wild) ==
    /\ audio_in # NoFrame /\ ~converted.done
    /\ converted' = Converted(audio_in, wild)
    /\ UNCHANGED audio_in

ConvertIdle == audio_in = NoFrame /\ converted = NoOutput

(***************************************************************************)
(* The PulseAudio sink (pulse_audio.cpp:214-433).  write_audio_data runs   *)
(* on the audio thread, stream_write_callback on the threaded mainloop's   *)
(* thread, which holds the mainloop lock while it dispatches, and the      *)
(* other operations on the render thread.  A step that takes a lock waits  *)
(* until the lock is free.                                                 *)
(***************************************************************************)
SinkThreads == {"audio", "mainloop", "render"}
Free == "none"
MaxBytes == 2
\* the sizes of the buffers the audio thread writes
WriteSizes == {1, 2}
SinkVolumes == {40, 150}
\* pa_stream_writable_size: nothing, some bytes, or (size_t)-1
WritableSizes == {-1, 0, 1, 2}

Goto(t, pc) == spc' = [spc EXCEPT ![t] = pc]

\* the holder of audio_buffer_mutex_ when write_audio_data leaves the block
\* of its lock_guard
KeepsGuard(holder) == holder
EndOfBlock(holder) == Free

\* write_audio_data (313-330)
WriteCall(size) ==
    /\ spc["audio"] = "idle" /\ next_byte + size - 1 <= MaxBytes
    /\ next_byte' = next_byte + size
    /\ IF ~sink_ready
       THEN UNCHANGED <<spc, pending>>
       ELSE /\ pending' = [i \in 1..size |-> next_byte + i - 1]
            /\ Goto("audio", "guard")
    /\ UNCHANGED <<audio_stream, sink_ready, sink_volume, sink_muted,
                   audio_buffer, mainloop_lock, buffer_mutex, writable_size,
                   handed, accepted>>

WriteGuard ==
    /\ spc["audio"] = "guard" /\ buffer_mutex = Free
    /\ buffer_mutex' = "audio"
    /\ Goto("audio", "emplace")
    /\ UNCHANGED <<audio_stream, sink_ready, sink_volume, sink_muted,
                   audio_buffer, mainloop_lock, pending, writable_size,
                   next_byte, handed, accepted>>

WriteEmplace ==
    /\ spc["audio"] = "emplace"
    /\ audio_buffer' = Append(audio_buffer, pending)
    /\ accepted' = accepted \o pending
    /\ pending' = <<>>
    /\ buffer_mutex' = EndOfBlock(buffer_mutex)
    /\ Goto("audio", "lock")
    /\ UNCHANGED <<audio_stream, sink_ready, sink_volume, sink_muted,
                   mainloop_lock, writable_size, next_byte, handed>>

\* pa_threaded_mainloop_lock
Lock(t, from, to) ==
    /\ spc[t] = from /\ mainloop_lock = Free
    /\ mainloop_lock' = t
    /\ Goto(t, to)
    /\ UNCHANGED <<audio_stream, sink_ready, sink_volume, sink_muted,
                   audio_buffer, buffer_mutex, pending, writable_size,
                   next_byte, handed, accepted>>

\* pa_threaded_mainloop_unlock and the return
Unlock(t, from) ==
    /\ spc[t] = from
    /\ mainloop_lock' = Free
    /\ Goto(t, "idle")
    /\ UNCHANGED <<audio_stream, sink_ready, sink_volume, sink_muted,
                   audio_buffer, buffer_mutex, pending, writable_size,
                   next_byte, handed, accepted>>

\* the mainloop thread dispatches stream_write_callback (395-398) of the
\* connected stream
Dispatch ==
    /\ spc["mainloop"] = "idle" /\ audio_stream # 0
    /\ Lock("mainloop", "idle", "process")

\* process_audio_buffer up to its lock_guard (400-410)
ProcessStart(t, size) ==
    /\ spc[t] = "process"
    /\ IF ~sink_ready \/ size = 0 \/ size = -1
       THEN Goto(t, "unlock") /\ UNCHANGED writable_size
       ELSE /\ writable_size' = [writable_size EXCEPT ![t] = size]
            /\ Goto(t, "drain_guard")
    /\ UNCHANGED <<audio_stream, sink_ready, sink_volume, sink_muted,
                   audio_buffer, mainloop_lock, buffer_mutex, pending,
                   next_byte, handed, accepted>>

ProcessGuard(t) ==
    /\ spc[t] = "drain_guard" /\ buffer_mutex = Free
    /\ buffer_mutex' = t
    /\ Goto(t, "drain")
    /\ UNCHANGED <<audio_stream, sink_ready, sink_volume, sink_muted,
                   audio_buffer, mainloop_lock, pending, writable_size,
                   next_byte, handed, accepted>>

\* The loop of process_audio_buffer (412-432) on queue q with w writable
\* bytes; fails is the number of the pa_stream_write call that fails
\* (0: none).  The result is the queue left and the bytes written.
RECURSIVE Drain(_, _, _, _)
Drain(q, w, fails, out) ==
    IF q = <<>> \/ w <= 0 THEN [queue |-> q, written |-> out]
    ELSE LET buffer == Head(q)
             write_size == Min(Len(buffer), w)
         IN  IF fails = 1 THEN [queue |-> q, written |-> out]
             ELSE IF write_size = Len(buffer)
                  THEN Drain(Tail(q), w - write_size, Max(fails - 1, 0),
                             out \o buffer)
                  ELSE [queue |-> <<SubSeq(buffer, write_size + 1,
                                           Len(buffer))>> \o Tail(q),
                        written |-> out \o SubSeq(buffer, 1, write_size)]

ProcessDrain(t, fails) ==
    /\ spc[t] = "drain"
    /\ LET d == Drain(audio_buffer, writable_size[t], fails, <<>>)
       IN  /\ audio_buffer' = d.queue
           /\ handed' = handed \o d.written
    /\ writable_size' = [writable_size EXCEPT ![t] = 0]
    /\ buffer_mutex' = Free
    /\ Goto(t, "unlock")
    /\ UNCHANGED <<audio_stream, sink_ready, sink_volume, sink_muted,
                   mainloop_lock, pending, next_byte, accepted>>

\* create_audio_stream (214-285)
CreateCall ==
    /\ spc["render"] = "idle" /\ audio_stream = 0
    /\ Goto("render", "create_lock")
    /\ UNCHANGED <<audio_stream, sink_ready, sink_volume, sink_muted,
                   audio_buffer, mainloop_lock, buffer_mutex, pending,
                   writable_size, next_byte, handed, accepted>>

CreateStream(ok) ==
    /\ spc["render"] = "create"
    /\ IF ok
       THEN /\ audio_stream' = 1 /\ sink_ready' = TRUE
            /\ handed' = <<>> /\ accepted' = <<>>
       ELSE UNCHANGED <<audio_stream, sink_ready, handed, accepted>>
    /\ mainloop_lock' = Free
    /\ Goto("render", "idle")
    /\ UNCHANGED <<sink_volume, sink_muted, audio_buffer, buffer_mutex,
                   pending, writable_size, next_byte>>

\* destroy_audio_stream (287-311)
DestroyCall ==
    /\ spc["render"] = "idle" /\ audio_stream # 0
    /\ Goto("render", "destroy_lock")
    /\ UNCHANGED <<audio_stream, sink_ready, sink_volume, sink_muted,
                   audio_buffer, mainloop_lock, buffer_mutex, pending,
                   writable_size, next_byte, handed, accepted>>

DestroyStream ==
    /\ spc["render"] = "destroy"
    /\ audio_stream' = 0 /\ sink_ready' = FALSE
    /\ Goto("render", "clear_guard")
    /\ UNCHANGED <<sink_volume, sink_muted, audio_buffer, mainloop_lock,
                   buffer_mutex, pending, writable_size, next_byte, handed,
                   accepted>>

DestroyGuard ==
    /\ spc["render"] = "clear_guard" /\ buffer_mutex = Free
    /\ buffer_mutex' = "render"
    /\ Goto("render", "clear")
    /\ UNCHANGED <<audio_stream, sink_ready, sink_volume, sink_muted,
                   audio_buffer, mainloop_lock, pending, writable_size,
                   next_byte, handed, accepted>>

DestroyClear ==
    /\ spc["render"] = "clear"
    /\ audio_buffer' = <<>>
    /\ mainloop_lock' = Free /\ buffer_mutex' = Free
    /\ Goto("render", "idle")
    /\ UNCHANGED <<audio_stream, sink_ready, sink_volume, sink_muted,
                   pending, writable_size, next_byte, handed, accepted>>

\* set_playback_volume (332-359) and set_playback_muted (361-383)
SinkVolume(v) ==
    /\ spc["render"] = "idle"
    /\ sink_volume' = Max(0, Min(100, v))
    /\ IF ~sink_ready THEN UNCHANGED spc ELSE Goto("render", "setting_lock")
    /\ UNCHANGED <<audio_stream, sink_ready, sink_muted, audio_buffer,
                   mainloop_lock, buffer_mutex, pending, writable_size,
                   next_byte, handed, accepted>>

SinkMuted(m) ==
    /\ spc["render"] = "idle"
    /\ sink_muted' = m
    /\ IF ~sink_ready THEN UNCHANGED spc ELSE Goto("render", "setting_lock")
    /\ UNCHANGED <<audio_stream, sink_ready, sink_volume, audio_buffer,
                   mainloop_lock, buffer_mutex, pending, writable_size,
                   next_byte, handed, accepted>>

SinkIdle ==
    /\ audio_stream = 0 /\ sink_ready = FALSE
    /\ sink_volume = 100 /\ sink_muted = FALSE
    /\ audio_buffer = <<>>
    /\ mainloop_lock = Free /\ buffer_mutex = Free
    /\ spc = [t \in SinkThreads |-> "idle"]
    /\ pending = <<>>
    /\ writable_size = [t \in {"audio", "mainloop"} |-> 0]
    /\ next_byte = 1 /\ handed = <<>> /\ accepted = <<>>

(***************************************************************************)
(* The parts of the state a specification does not exercise.               *)
(***************************************************************************)
DecodeIdle ==
    /\ stream = NoStream /\ read_pos = 0 /\ decoder_queue = <<>>
    /\ current_real_time = 0 /\ playback_start_time = 0 /\ video_pts = 0
    /\ xpc = "idle" /\ depth = 0 /\ pass_frames = [cur |-> 0, prev |-> 0]
    /\ calls = 0 /\ last = NoReturn

GateIdle ==
    /\ last_display_time = Unset /\ gate_fps = <<>> /\ trues = <<>>
    /\ first_poll = Unset /\ continuous = FALSE /\ gate_last = NoPoll

LoopIdle ==
    /\ loop_pc = "off" /\ cursor = 0 /\ iter_now = 0 /\ last_frame_time = 0
    /\ frame_duration = 0 /\ native_fps = <<>> /\ start_time = <<>>
    /\ decoded = <<>>

timingVars == <<now, decodeVars, gateVars, loopVars, composeVars, convertVars, sinkVars>>

(***************************************************************************)
(* Spec: the lifecycle of one player.                                      *)
(***************************************************************************)
Init == PlayerInit /\ now = ClockStart /\ DecodeIdle /\ GateIdle /\ LoopIdle /\ ComposeIdle /\ ConvertIdle /\ SinkIdle

Next ==
    \/ (\E ok \in BOOLEAN : Initialize(ok)) /\ UNCHANGED timingVars
    \/ (\E p \in Paths : \E fail \in FailuresFor(p) : LoadMedia(p, fail))
           /\ UNCHANGED timingVars
    \/ Play /\ UNCHANGED timingVars
    \/ Pause /\ UNCHANGED timingVars
    \/ (\E fps \in FpsArgs : SetFpsLimit(fps)) /\ UNCHANGED timingVars
    \/ Cleanup /\ UNCHANGED timingVars
    \/ CleanupJoin /\ UNCHANGED timingVars
    \/ (\E t \in ThreadIds : AudioThread(t)) /\ UNCHANGED timingVars

Spec == Init /\ [][Next]_vars

(***************************************************************************)
(* Properties of the lifecycle.                                            *)
(***************************************************************************)
\* every field that points at decode state
DecodePointers == {image_data, format_context, codec_context, frame, rgb_frame,
                   sws_context, frame_buffer, audio_codec_context, audio_frame}

\* the file an audio thread decodes, or is about to open
ThreadSource(t) == IF threads[t].pc = "open" THEN audio_file_path
                   ELSE threads[t].file

ThreadAlive(t) == threads[t].pc \notin {"none", "exited"}

\* C1: whatever its outcome, once load_media has returned no decoder state,
\* frame buffer or image data of a previously loaded source remains.
C1_LoadResetsPriorState ==
    lastCall.op = "load_media" =>
        \A x \in DecodePointers : x \in {Null, lastCall.arg}

\* C2: once a load_media that replaces a loaded source has returned, no audio
\* thread started for the previous source is still alive on the previous file.
C2_ReloadReplacesSession ==
    lastCall.op = "load_media" /\ lastCall.ret =>
        \A t \in ThreadIds : ThreadAlive(t) => ThreadSource(t) = lastCall.arg

\* C3: load_media of an existing file whose extension is .gif in any letter
\* case classifies it as the animated-image kind.
C3_GifIsAnimatedImage ==
    /\ lastCall.op = "load_media" /\ initialized
    /\ FileExists(lastCall.arg)
    /\ LowerCase(Extension(lastCall.arg)) = GifExtension
    => media_type = "GIF"

\* C8: with a video loaded and no positive rate ever requested through
\* set_fps_limit, the target display rate equals the video's native rate.
C8_DefaultTargetIsNative ==
    decoder_initialized /\ ~fps_limit_requested =>
        target_display_fps = frame_rate

(***************************************************************************)
(* LoadSpec: the lifecycle restricted to initialize, load_media and         *)
(* cleanup, with the audio thread a load starts.                           *)
(***************************************************************************)
LoadNext ==
    \/ (\E ok \in BOOLEAN : Initialize(ok)) /\ UNCHANGED timingVars
    \/ (\E p \in Paths : \E fail \in FailuresFor(p) : LoadMedia(p, fail))
           /\ UNCHANGED timingVars
    \/ Cleanup /\ UNCHANGED timingVars
    \/ CleanupJoin /\ UNCHANGED timingVars
    \/ (\E t \in ThreadIds : AudioThread(t)) /\ UNCHANGED timingVars

LoadSpec == Init /\ [][LoadNext]_vars

\* the calls of the video side that can fail
VideoFailures == {"open_input", "stream_info", "open_codec", "alloc_frames",
                  "frame_buffer", "sws"}

\* the failures of the audio side that leave the sink without a stream
AudioFailures == {"audio_find_decoder", "audio_open", "create_stream"}

\* position (from 0) of the earliest stream of `kind` in container order
Earliest(kinds, kind) ==
    IF \A i \in DOMAIN kinds : kinds[i] # kind THEN -1
    ELSE (CHOOSE i \in DOMAIN kinds :
              kinds[i] = kind /\ \A j \in 1..(i - 1) : kinds[j] # kind) - 1

\* C14: a load of a video fails when the container has no video stream, and a
\* load that returns succeeds exactly when the video side does; with a video
\* stream and nothing failing on the video side it succeeds with the
\* video decoder ready and audio playback off when there is no audio stream,
\* the audio codec is unsupported or cannot be opened, or the sink stream
\* cannot be created; the streams selected are the first video stream and
\* the first audio stream in container order.
C14_VideoSideDecidesLoad ==
    [][\A p \in Paths : \A fail \in FailuresFor(p) :
          /\ lastCall'.arg = p /\ lastCall'.op # OtherCall.op
          /\ initialized /\ FileExists(p) /\ detect_media_type(p) = "VIDEO"
          /\ LoadMedia(p, fail)
          => LET vidx == Earliest(StreamKinds(p), "video")
                 aidx == Earliest(StreamKinds(p), "audio")
                 video_ok == vidx # -1 /\ fail \notin VideoFailures
             IN /\ vidx = -1 => ~lastCall'.ret
                /\ lastCall'.op = "load_media" => (lastCall'.ret <=> video_ok)
                /\ video_ok /\ (aidx = -1 \/ fail \in AudioFailures)
                     => /\ lastCall'.ret /\ ~crashed'
                        /\ has_video' /\ decoder_initialized'
                        /\ {format_context', codec_context', frame',
                            rgb_frame', frame_buffer', sws_context'} = {p}
                        /\ ~audio_playback_enabled' /\ threads' = threads
                /\ lastCall'.ret => /\ video_stream_index' = vidx
                                    /\ audio_stream_index' = aidx]_vars

\* a video whose audio side failed is loaded: decoder ready, sink present,
\* audio stream found, playback off and no audio thread
C14_Witness ==
    /\ lastCall.op = "load_media" /\ lastCall.arg = "a.mp4" /\ lastCall.ret
    /\ decoder_initialized /\ has_video /\ audio_player
    /\ video_stream_index = 1 /\ audio_stream_index = 0
    /\ ~audio_playback_enabled /\ audio_frame = Null
    /\ \A t \in ThreadIds : threads[t].pc = "none"

(***************************************************************************)
(* FrameSpec: initialize and load_media followed by frame requests.  A     *)
(* request is get_image_data() or get_video_frame() (get_video_frame_cpu   *)
(* and get_video_frame are aliases of get_video_frame_ffmpeg); lastCall    *)
(* records the buffer handed back.  `ok` is the result of                  *)
(* extract_next_frame, which DecodeSpec follows step by step.              *)
(***************************************************************************)
GetImageData ==
    /\ RenderReady
    /\ lastCall' = [op |-> "get_image_data", arg |-> image_data,
                    ret |-> image_data # Null]
    /\ UNCHANGED <<initialized, playing, current_media, media_type, has_video,
                   has_audio, image_data, format_context, codec_context, frame,
                   rgb_frame, sws_context, video_stream_index, frame_buffer,
                   audio_codec_context, audio_stream_index, audio_frame,
                   decoder_initialized, frame_rate, target_display_fps,
                   volume, muted, playback_volume, audio_player,
                   audio_playback_enabled, audio_stream_ready, audio_thread,
                   audio_thread_running, audio_file_path, threads, rpc,
                   crashed, fps_limit_requested>>

\* what get_video_frame_ffmpeg stores in *frame_data and returns
get_video_frame_ffmpeg(ok) ==
    IF ~initialized \/ ~has_video \/ ~decoder_initialized
    THEN [arg |-> Null, ret |-> FALSE]
    ELSE IF media_type = "VIDEO"
    THEN IF ok /\ frame_buffer # Null
         THEN [arg |-> frame_buffer, ret |-> TRUE]
         ELSE [arg |-> Null, ret |-> FALSE]
    ELSE IF frame_buffer # Null THEN [arg |-> frame_buffer, ret |-> TRUE]
    ELSE IF ok /\ frame_buffer # Null THEN [arg |-> frame_buffer, ret |-> TRUE]
    ELSE [arg |-> Null, ret |-> FALSE]

GetVideoFrame(ok) ==
    /\ RenderReady
    /\ lastCall' = [op  |-> "get_video_frame",
                    arg |-> get_video_frame_ffmpeg(ok).arg,
                    ret |-> get_video_frame_ffmpeg(ok).ret]
    /\ UNCHANGED <<initialized, playing, current_media, media_type, has_video,
                   has_audio, image_data, format_context, codec_context, frame,
                   rgb_frame, sws_context, video_stream_index, frame_buffer,
                   audio_codec_context, audio_stream_index, audio_frame,
                   decoder_initialized, frame_rate, target_display_fps,
                   volume, muted, playback_volume, audio_player,
                   audio_playback_enabled, audio_stream_ready, audio_thread,
                   audio_thread_running, audio_file_path, threads, rpc,
                   crashed, fps_limit_requested>>

FrameNext ==
    \/ (\E ok \in BOOLEAN : Initialize(ok)) /\ UNCHANGED timingVars
    \/ (\E p \in Paths : \E fail \in FailuresFor(p) : LoadMedia(p, fail))
           /\ UNCHANGED timingVars
    \/ GetImageData /\ UNCHANGED timingVars
    \/ (\E ok \in BOOLEAN : GetVideoFrame(ok)) /\ UNCHANGED timingVars

FrameSpec == Init /\ [][FrameNext]_vars

\* C20: every frame request on a loaded static image succeeds and hands back
\* the buffer decoded at load time.
C20_ImageRequestsReturnCachedFrame ==
    /\ lastCall.op \in {"get_image_data", "get_video_frame"}
    /\ media_type = "IMAGE" /\ image_data # Null
    => lastCall.ret /\ lastCall.arg = image_data

(***************************************************************************)
(* AudioSpec: one player with a video that has audio loaded and its audio  *)
(* thread started, the state initialize_screen_instance leaves behind      *)
(* before it applies the screen's settings.  The render thread's calls     *)
(* interleave with the audio thread's loop.                                *)
(***************************************************************************)
AudioInit ==
    /\ initialized = TRUE /\ playing = FALSE
    /\ volume = 100 /\ muted = FALSE
    /\ playback_volume = InitialPlaybackVolume
    /\ audio_player = TRUE
    /\ \E fps \in IndeterminateFps :
           InitFrom(load_media([Constructed(fps) EXCEPT !.initialized = TRUE],
                               "a.mp4", "none"))
    /\ audio_thread = 1
    /\ threads = [t \in ThreadIds |->
                      IF t = 1 THEN [pc |-> "open", file |-> NoPath]
                      ELSE NoThreadObject]
    /\ rpc = "idle" /\ crashed = FALSE
    /\ lastCall = [op |-> "load_media", arg |-> "a.mp4", ret |-> TRUE]
    /\ fps_limit_requested = FALSE
    /\ now = ClockStart /\ DecodeIdle /\ GateIdle /\ LoopIdle /\ ComposeIdle /\ ConvertIdle /\ SinkIdle

AudioNext ==
    \/ Play /\ UNCHANGED timingVars
    \/ Pause /\ UNCHANGED timingVars
    \/ Stop /\ UNCHANGED timingVars
    \/ (\E m \in BOOLEAN : SetMuted(m)) /\ UNCHANGED timingVars
    \/ (\E v \in VolumeArgs : SetVolume(v)) /\ UNCHANGED timingVars
    \/ Cleanup /\ UNCHANGED timingVars
    \/ CleanupJoin /\ UNCHANGED timingVars
    \/ (\E t \in ThreadIds : AudioThread(t)) /\ UNCHANGED timingVars

AudioSpec == AudioInit /\ [][AudioNext]_vars

\* AudioFairSpec: the scheduler keeps running a thread that can take a step
\* (both sleeps of the loop are bounded), and join() returns once the thread
\* function has returned.
AudioFairSpec ==
    /\ AudioSpec
    /\ WF_vars(CleanupJoin /\ UNCHANGED timingVars)
    /\ \A t \in ThreadIds : WF_vars(AudioThread(t) /\ UNCHANGED timingVars)

\* C11: cleanup() releases the decoder contexts and destroys the sink stream
\* only when no audio thread is still running (the flag is cleared and the
\* thread joined first), and a cleanup() that waits in join() always returns.
C11_JoinBeforeRelease ==
    /\ [][CleanupRest => \A t \in ThreadIds : ~ThreadAlive(t)]_vars
    /\ (rpc = "joining") ~> (rpc = "idle")

\* cleanup() has returned after joining the thread that was running
C11_Witness ==
    /\ rpc = "idle" /\ ~initialized /\ ~audio_thread_running
    /\ \A t \in ThreadIds : threads[t].pc = "none"

\* the audio thread reads a packet, or writes decoded samples to the sink
AudioWork ==
    \/ \E t \in ThreadIds : \E outcome \in ReadOutcomes : AudioRead(t, outcome)
    \/ \E t \in ThreadIds : AudioWrite(t)

\* C10: in every interleaving, while playing is false or muted is true (a
\* pause(), stop() or set_muted(true) has returned and the state has not been
\* cleared again) the audio thread reads no packet and writes nothing to the
\* sink, whatever the volume.
C10_SilentWhilePausedOrMuted ==
    [][AudioWork => playing /\ ~muted]_vars

\* the fields declared std::atomic (media_player.h:151); the class has no mutex
AtomicFields == {"audio_thread_running"}

PlaybackFields == {"playing", "muted", "volume"}

\* the field the audio thread's next step loads
ThreadReads(t) ==
    CASE threads[t].pc = "while"      -> {"audio_thread_running"}
      [] threads[t].pc = "if_playing" -> {"playing"}
      [] threads[t].pc = "if_muted"   -> {"muted"}
      [] OTHER                        -> {}

\* the playback fields a call the render thread can make now stores to
RenderWrites ==
    {f \in PlaybackFields :
        \/ f = "playing" /\ ENABLED ((Play \/ Pause \/ Stop) /\ UNCHANGED timingVars)
        \/ f = "muted" /\ ENABLED ((\E b \in BOOLEAN : SetMuted(b))
                                       /\ UNCHANGED timingVars)
        \/ f = "volume" /\ ENABLED ((\E v \in VolumeArgs : SetVolume(v))
                                        /\ UNCHANGED timingVars)}

\* C12: no reachable state has the audio thread about to read a playback
\* field (playing, muted, volume) that the render thread can write at the same
\* moment, unless the field is atomic; nothing else orders the two accesses.
C12_PlaybackStateSynchronised ==
    \A t \in ThreadIds : \A f \in PlaybackFields :
        ~crashed /\ f \in ThreadReads(t) /\ f \in RenderWrites
            => f \in AtomicFields

\* C13: set_volume(v) stores min(100, max(0, v)), so -5 gives 0 and 150 gives
\* 100, and in every reachable state the stored volume and the volume held by
\* the sink lie in 0..100.
C13_VolumeClamped ==
    /\ [][\A v \in VolumeArgs :
              SetVolume(v) => volume' = Min(100, Max(0, v))]_vars
    /\ [](ClampVolume(-5) = 0 /\ ClampVolume(150) = 100)
    /\ [](volume \in 0..100 /\ playback_volume \in 0..100)

\* set_volume(-5) has been applied to the player and to its live sink stream
C13_Witness ==
    /\ audio_player /\ audio_playback_enabled
    /\ volume = 0 /\ playback_volume = 0

\* C26: a player never has two audio threads alive, and its thread handle
\* is never given a new thread while it still holds a joinable one (which
\* destroys the joinable std::thread and terminates the process).
C26_OneAudioThread ==
    /\ ~crashed
    /\ Cardinality({t \in ThreadIds : ThreadAlive(t)}) <= 1

\* the failures of setup_ffmpeg_decoder that come after the audio thread
\* has been started
LateFailures == {"alloc_frames", "frame_buffer", "sws"}

\* C27: when a load of a video starts the audio thread and then fails
\* (frame allocation, frame-buffer allocation or scaling context), it
\* returns false with no audio thread alive and the keep-running flag false.
C27_FailedLoadStopsAudio ==
    [][\A p \in Paths : \A fail \in LateFailures :
          /\ lastCall'.arg = p /\ lastCall'.op # OtherCall.op
          /\ initialized /\ FileExists(p) /\ detect_media_type(p) = "VIDEO"
          /\ audio_thread' # audio_thread
          /\ LoadMedia(p, fail)
          => /\ ~lastCall'.ret
             /\ ~audio_thread_running'
             /\ \A t \in ThreadIds : threads'[t].pc \in {"none", "exited"}]_vars

\* C28: in every reachable state has_video_ is true only while a video
\* decoder is initialised, so playing can be true only then.
C28_VideoImpliesDecoder ==
    /\ has_video => decoder_initialized
    /\ playing => decoder_initialized

(***************************************************************************)
(* DecodeSpec: a player without an audio sink that has loaded one of the   *)
(* video files, with set_fps_limit called or not, and is asked for frames. *)
(* DecodeFairSpec adds that the render thread, once inside a call, keeps   *)
(* executing it.                                                           *)
(***************************************************************************)
DecodeInit ==
    /\ initialized = TRUE /\ playing = FALSE
    /\ volume = 100 /\ muted = FALSE
    /\ playback_volume = InitialPlaybackVolume
    /\ audio_player = FALSE
    /\ \E p \in VideoFiles : \E requested \in BOOLEAN : \E fps \in FpsArgs :
         \E unset \in IndeterminateFps :
           LET r == load_media([Constructed(unset) EXCEPT !.initialized = TRUE],
                               p, "none")
           IN /\ InitFrom([r EXCEPT !.target_display_fps =
                                 IF requested THEN DisplayFpsFor(fps, r.frame_rate)
                                 ELSE @])
              /\ fps_limit_requested = (requested /\ fps > 0)
              /\ lastCall = IF requested THEN OtherCall
                            ELSE [op |-> "load_media", arg |-> p, ret |-> r.ret]
              /\ stream \in StreamsOf(p)
    /\ audio_thread = NoThread
    /\ threads = [t \in ThreadIds |-> NoThreadObject]
    /\ rpc = "idle" /\ crashed = FALSE
    /\ now = ClockStart
    /\ read_pos = 0 /\ decoder_queue = <<>>
    /\ current_real_time = 0 /\ playback_start_time = 0 /\ video_pts = 0
    /\ xpc = "idle" /\ depth = 0 /\ pass_frames = [cur |-> 0, prev |-> 0]
    /\ calls = 0 /\ last = NoReturn
    /\ GateIdle /\ LoopIdle /\ ComposeIdle /\ ConvertIdle /\ SinkIdle

DecodeNext ==
    \/ (\E gap \in CallGaps : ExtractCall(gap))
           /\ UNCHANGED <<playerVars, gateVars, loopVars, composeVars, convertVars, sinkVars>>
    \/ ReadPacket /\ UNCHANGED <<playerVars, gateVars, loopVars, composeVars, convertVars, sinkVars>>
    \/ EndOfStream /\ UNCHANGED <<playerVars, gateVars, loopVars, composeVars, convertVars, sinkVars>>
    \/ Rewind /\ UNCHANGED <<playerVars, gateVars, loopVars, composeVars, convertVars, sinkVars>>

DecodeSpec == DecodeInit /\ [][DecodeNext]_vars

DecodeFairSpec ==
    /\ DecodeSpec
    /\ WF_vars(ReadPacket /\ UNCHANGED <<playerVars, gateVars, loopVars, composeVars, convertVars, sinkVars>>)
    /\ WF_vars(EndOfStream /\ UNCHANGED <<playerVars, gateVars, loopVars, composeVars, convertVars, sinkVars>>)
    /\ WF_vars(Rewind /\ UNCHANGED <<playerVars, gateVars, loopVars, composeVars, convertVars, sinkVars>>)

\* C4: when a pass over the stream has yielded N >= 1 frames, the call that
\* follows them succeeds with the frame carrying the stream's first PTS.
C4_LoopsToFirstFrame ==
    last.ok /\ last.wrapped /\ last.pass >= 1 =>
        last.pts = FirstPts(stream, frame_rate)

\* C5: every call to extract_next_frame on an initialised decoder returns.
C5_ExtractReturns == (xpc # "idle") ~> (xpc = "idle")

\* C7: in native-rate mode a frame that is ahead of schedule is returned
\* after a sleep of min(playback_start + p - now, 100 ms).
C7_SleepsUntilDueOrCap ==
    last.ok /\ last.native /\ last.ahead > 0 =>
        last.slept = Min(last.ahead, MaxWait)

\* C22: a call that reaches the end of the stream and loops back returns
\* its frame with playback_start_time_ set to the time the call took on
\* entry, not the anchor of the pass before, so the frame is held back for
\* no longer than its own PTS.
C22_LoopResetsAnchor ==
    xpc = "idle" /\ last.ok /\ last.wrapped =>
        /\ playback_start_time = now - last.slept
        /\ last.ahead <= last.pts
        /\ last.slept <= last.pts

\* at native rate, the first frame after a loop-back is held back for its PTS
C22_Witness ==
    /\ xpc = "idle" /\ last.ok /\ last.wrapped /\ last.native
    /\ calls > 1 /\ last.pts > 0 /\ last.slept = last.pts

(***************************************************************************)
(* GateSpec: the gates of two players polled against the clock.  With      *)
(* `continuous` the first player's gate alone is polled, at every instant. *)
(***************************************************************************)
GateInit ==
    /\ PlayerInit /\ DecodeIdle /\ LoopIdle /\ ComposeIdle /\ ConvertIdle /\ SinkIdle
    /\ now = ClockStart
    /\ last_display_time = Unset
    /\ gate_fps \in [Players -> GateRates]
    /\ trues = [p \in Players |-> 0]
    /\ first_poll = Unset
    /\ continuous \in BOOLEAN
    /\ gate_last = NoPoll

GateNext ==
    \/ (\E p \in Players : Poll(p))
           /\ UNCHANGED <<playerVars, decodeVars, loopVars, composeVars, convertVars, sinkVars>>
    \/ (\E t \in NextInstants : Advance(t))
           /\ UNCHANGED <<playerVars, decodeVars, loopVars, composeVars, convertVars, sinkVars>>

GateSpec == GateInit /\ [][GateNext]_vars

\* the gate of `p` has just answered
Polled(p) == gate_last.at = now /\ gate_last.player = p

\* whole frames of rate f that fit into t microseconds
FramesIn(t, f) == (t * f) \div MicrosPerSecond

LoopInit ==
    /\ PlayerInit /\ DecodeIdle /\ ComposeIdle /\ ConvertIdle /\ SinkIdle
    /\ now = ClockStart
    /\ \E n \in 1..MaxScreens : \E config_fps \in [1..n -> ConfigFps] :
           /\ native_fps \in [1..n -> NativeRates]
           \* set_fps_limit(config.fps) after the load
           /\ gate_fps = [i \in 1..n |-> DisplayFpsFor(config_fps[i], native_fps[i])]
           /\ frame_duration =
                  MillisPerSecond \div
                      calculate_effective_fps(config_fps, [i \in 1..n |-> TRUE])
           /\ trues = [i \in 1..n |-> 0]
           /\ start_time = [i \in 1..n |-> 0]
           /\ decoded = [i \in 1..n |-> 0]
    /\ last_display_time = Unset /\ first_poll = Unset
    /\ continuous = FALSE /\ gate_last = NoPoll
    /\ loop_pc = "top" /\ cursor = 0
    /\ iter_now = ClockStart /\ last_frame_time = ClockStart

LoopNext ==
    \/ LoopTop /\ UNCHANGED <<playerVars, decodeVars, composeVars, convertVars, sinkVars>>
    \/ (\E work \in WorkTimes : InstanceStep(work))
           /\ UNCHANGED <<playerVars, decodeVars, composeVars, convertVars, sinkVars>>
    \/ LoopSleep /\ UNCHANGED <<playerVars, decodeVars, composeVars, convertVars, sinkVars>>

LoopSpec == LoopInit /\ [][LoopNext]_vars

\* PTS of the frame instance i decoded last
DecodedPts(i) == (decoded[i] - 1) * FramePeriod(native_fps[i])

\* "about": within two loop periods and two frames
About(i) == 2 * (FrameDurationMicros + FramePeriod(native_fps[i]))

\* C9: in rate-limited mode the PTS of the most recently decoded frame has
\* advanced by about the wall-clock time the update loop has been running.
C9_StreamAdvancesAtNativeSpeed ==
    \A i \in DOMAIN native_fps :
        gate_fps[i] < native_fps[i] /\ decoded[i] > 0 /\ loop_pc = "top" =>
            /\ DecodedPts(i) >= (now - ClockStart) - About(i)
            /\ DecodedPts(i) <= (now - ClockStart) + About(i)

\* C25: the gates are independent.  The gate of an instance, asked by the
\* update loop once a whole interval of its own rate (and the time the
\* instances before it took) has passed since the gates were first asked,
\* has opened at least once, whatever the gates of the other instances have
\* answered.
C25_GatesIndependent ==
    \A i \in DOMAIN gate_fps : \A work \in WorkTimes :
        /\ gate_last.player = i
        /\ gate_last.at - first_poll >= TargetInterval(gate_fps[i]) + work
        => trues[i] >= 1

(***************************************************************************)
(* ComposeSpec: a renderer is set up with a scaling mode on a surface and   *)
(* renders sources of several sizes on it.                                 *)
(***************************************************************************)
ComposeNext ==
    \/ \E r \in Renderers, mode \in ScalingModes, dst \in DstSizes,
          windowed_mode \in BOOLEAN :
           /\ Configure(r, mode, dst, windowed_mode)
           /\ UNCHANGED <<playerVars, now, decodeVars, gateVars, loopVars, convertVars, sinkVars>>
    \/ \E src \in SrcSizes \cup WideSizes, src_null \in BOOLEAN,
          lib_ok \in BOOLEAN, wild \in WildOutcomes :
           /\ Compose(src, src_null, lib_ok, wild)
           /\ UNCHANGED <<playerVars, now, decodeVars, gateVars, loopVars, convertVars, sinkVars>>

ComposeSpec == Init /\ [][ComposeNext]_vars

\* a renderer has been called with a source
Composed ==
    composed.renderer \in Renderers /\ composed.sw > 0 /\ ~composed.src_null

Positive == composed.sw > 0 /\ composed.sh > 0 /\ composed.dw > 0 /\ composed.dh > 0

Inside(rect, dw, dh) ==
    /\ rect.x >= 0 /\ rect.x + rect.w <= dw
    /\ rect.y >= 0 /\ rect.y + rect.h <= dh

Abs(a) == IF a >= 0 THEN a ELSE -a

\* One axis spans the destination, and the other is the size the source
\* aspect gives it, to within one pixel: whole pixels cannot do better than
\* a fraction of a pixel, and the rounded aspect can cost one more.
SpansKeepingAspect(rect, sw, sh, dw, dh) ==
    \/ rect.w = dw /\ Abs(rect.h * sw - dw * sh) <= sw
    \/ rect.h = dh /\ Abs(rect.w * sh - dh * sw) <= sh

Centred(rect, dw, dh) ==
    /\ rect.x = (dw - rect.w) \div 2
    /\ rect.y = (dh - rect.h) \div 2

\* C15: in every renderer the FIT placement of a source in a destination,
\* both of positive size, lies inside the destination, spans the
\* destination on one axis with the other axis following the source aspect
\* to the pixel, and is centred; the pixels of the destination outside the
\* placement hold no source pixel; and 1920x1080 in 800x600 is placed as
\* 800x450 at offset (0, 75).
C15_FitPlacement ==
    /\ \A r \in Renderers :
           Placement(r, "FIT", 1920, 1080, 800, 600)
               = [x |-> 0, y |-> 75, w |-> 800, h |-> 450]
    /\ Composed /\ Positive /\ composed.mode = "FIT" =>
           LET c == composed IN
           /\ Inside(c.rect, c.dw, c.dh)
           /\ SpansKeepingAspect(c.rect, c.sw, c.sh, c.dw, c.dh)
           /\ Centred(c.rect, c.dw, c.dh)
           /\ c.ret => \A p \in DOMAIN c.buffer :
                  (c.buffer[p] # Clear) <=>
                      /\ p[1] - c.rect.x \in 0..(c.rect.w - 1)
                      /\ p[2] - c.rect.y \in 0..(c.rect.h - 1)

\* a source of 1x7 fitted by the Wayland image renderer in 1x8, where the
\* rounded aspect gives a height of 6, and a letterboxed 3x2 in 4x3
C15_Witness ==
    /\ Composed /\ Positive /\ composed.mode = "FIT" /\ composed.ret
    /\ \/ /\ composed.renderer = "wayland_image"
          /\ <<composed.sw, composed.sh, composed.dw, composed.dh>> = <<1, 7, 1, 8>>
          /\ composed.rect = [x |-> 0, y |-> 1, w |-> 1, h |-> 6]
       \/ /\ composed.renderer = "x11_video"
          /\ <<composed.sw, composed.sh, composed.dw, composed.dh>> = <<3, 2, 4, 3>>
          /\ composed.rect = [x |-> 0, y |-> 0, w |-> 4, h |-> 2]
          /\ composed.buffer[<<0, 2>>] = Clear

\* C17: in every renderer the STRETCH placement is the whole destination,
\* offset (0, 0) and size dw x dh, whatever the source and the destination
\* are, every pixel of the destination is then copied from the source, and
\* in a destination of 800x600 the placement is (0, 0, 800, 600).
C17_StretchPlacement ==
    /\ \A r \in Renderers : \A src \in SrcSizes \cup {<<1920, 1080>>} :
           Placement(r, "STRETCH", src[1], src[2], 800, 600)
               = [x |-> 0, y |-> 0, w |-> 800, h |-> 600]
    /\ Composed /\ composed.mode = "STRETCH" =>
           /\ composed.rect
                  = [x |-> 0, y |-> 0, w |-> composed.dw, h |-> composed.dh]
           /\ composed.ret => \A p \in DOMAIN composed.buffer :
                  /\ composed.buffer[p][1] \in 0..(composed.sw - 1)
                  /\ composed.buffer[p][2] \in 0..(composed.sh - 1)

\* a source of 1x7, far from the aspect of the destination, stretched to 4x3
C17_Witness ==
    /\ Composed /\ composed.mode = "STRETCH" /\ composed.ret
    /\ <<composed.sw, composed.sh, composed.dw, composed.dh>> = <<1, 7, 4, 3>>
    /\ composed.rect = [x |-> 0, y |-> 0, w |-> 4, h |-> 3]
    /\ composed.buffer[<<3, 2>>] = <<0, 4>>

Covers(rect, dw, dh) ==
    /\ rect.x <= 0 /\ rect.x + rect.w >= dw
    /\ rect.y <= 0 /\ rect.y + rect.h >= dh

IsSourcePixel(v, sw, sh) == v[1] \in 0..(sw - 1) /\ v[2] \in 0..(sh - 1)

\* C16: in every renderer the FILL placement of a source in a destination,
\* both of positive size, covers the destination, and after a successful
\* call every pixel of the destination holds a pixel of the source; the
\* renderers that place the whole picture place 1920x1080 in 800x600 at a
\* negative x offset.
C16_FillCoversDestination ==
    /\ \A r \in Renderers \ {"x11_video"} :
           Placement(r, "FILL", 1920, 1080, 800, 600).x < 0
    /\ Composed /\ Positive /\ composed.mode = "FILL" =>
           /\ Covers(composed.rect, composed.dw, composed.dh)
           /\ composed.ret => \A p \in DOMAIN composed.buffer :
                  IsSourcePixel(composed.buffer[p], composed.sw, composed.sh)

\* C18: in every renderer a call with DEFAULT, on a source and a destination
\* of positive size, gives the placement and the destination buffer that
\* the same call with FIT gives.
C18_DefaultIsFit ==
    Composed /\ Positive /\ composed.mode = "DEFAULT" =>
        /\ composed.rect = Placement(composed.renderer, "FIT", composed.sw,
                                     composed.sh, composed.dw, composed.dh)
        /\ composed.ret =>
               composed.buffer = Buffer(composed.renderer, "FIT", composed.sw,
                                        composed.sh, composed.dw, composed.dh,
                                        composed.windowed, composed.wild)

\* C19: a call with a null source, and a call on a destination of zero
\* width or height, returns false and leaves every destination pixel as it
\* was.
C19_FailureModes ==
    composed.renderer \in Renderers /\ composed.sw > 0
        /\ (composed.src_null \/ composed.dw = 0 \/ composed.dh = 0) =>
        /\ ~composed.ret
        /\ \A p \in DOMAIN composed.buffer : composed.buffer[p] = Untouched

\* the renderers that take the orientation (windowed_mode) as a parameter
Oriented == Renderers \ {"sdl2_window"}

\* C24: in a renderer that takes the orientation, when the top row of the
\* destination shows the top row of the picture with no vertical crop (the
\* placement starts at row 0, and a FILL crops the sides), every pixel of
\* that row reads the last row of the source when the orientation asks for
\* the inversion and the first row when it does not, from the column it
\* reads without the inversion.
C24_OrientationInverts ==
    /\ Composed /\ Positive /\ composed.ret
    /\ composed.renderer \in Oriented
    /\ composed.rect.y = 0 /\ composed.rect.h > 0
    /\ composed.mode = "FILL" =>
           Wider(composed.sw, composed.sh, composed.dw, composed.dh)
    => LET c == composed
           upright == Buffer(c.renderer, c.mode, c.sw, c.sh, c.dw, c.dh, FALSE,
                             c.wild)
       IN \A p \in DOMAIN c.buffer :
              p[2] = 0 /\ c.buffer[p] # Background(c.renderer, c.mode) =>
                  /\ c.buffer[p][2] = IF c.windowed THEN c.sh - 1 ELSE 0
                  /\ c.buffer[p][1] = upright[p][1]

\* C23: after a call on a source and a destination of positive size, in
\* every mode and both orientations, every pixel written lies in the
\* destination and the source pixel read for it lies in the source.
C23_CompositorMemorySafe ==
    Composed /\ Positive /\ composed.ret =>
        /\ composed.written \subseteq DstPixels(composed.dw, composed.dh)
        /\ \A p \in composed.written :
               IsSourcePixel(composed.buffer[p], composed.sw, composed.sh)


(***************************************************************************)
(* ConvertSpec: the audio thread has received one decoded frame and        *)
(* converts it.                                                            *)
(***************************************************************************)
ConvertInit ==
    /\ PlayerInit /\ now = ClockStart /\ DecodeIdle /\ GateIdle /\ LoopIdle
    /\ ComposeIdle /\ SinkIdle
    /\ audio_in \in AudioFrames /\ converted = NoOutput

ConvertNext ==
    \E wild \in WildSamples :
        /\ ProcessAudioFrame(wild)
        /\ UNCHANGED <<playerVars, now, decodeVars, gateVars, loopVars,
                       composeVars, sinkVars>>

ConvertSpec == ConvertInit /\ [][ConvertNext]_vars

\* the 16-bit value of a sample: the clamped sample times 32767, within
\* rounding
Expected(v, out) ==
    /\ out \in -Scale..Scale
    /\ v # NaN => LET c == Clamped(v)[2] * Scale
                  IN  Abs(out * Unit - c) < Unit

\* C21: a planar-float frame of C channels and S samples per channel is
\* converted to S*C 16-bit samples; the one at index s*C + c is sample s of
\* plane c clamped to [-1, 1] and scaled by 32767, within rounding, so it
\* lies in -32767..32767.
C21_PlanarFloatConversion ==
    converted.done /\ audio_in.format = "FLTP" =>
        /\ ~converted.crashed
        /\ Len(converted.output) = audio_in.nb_samples * audio_in.channels
        /\ \A s \in 0..(audio_in.nb_samples - 1) :
               \A c \in 0..(audio_in.channels - 1) :
                   Expected(audio_in.planes[c + 1][s + 1],
                            converted.output[s * audio_in.channels + c + 1])


(***************************************************************************)
(* SinkSpec: streams are made and destroyed by the render thread while the *)
(* audio thread writes and the mainloop thread asks for data.              *)
(***************************************************************************)
sinkFrame == <<playerVars, now, decodeVars, gateVars, loopVars, composeVars,
               convertVars>>

\* the steps of the operation thread t is in
Continue(t) ==
    \/ t = "audio" /\ WriteGuard
    \/ t = "audio" /\ WriteEmplace
    \/ t = "audio" /\ Lock(t, "lock", "process")
    \/ t # "render" /\ (\E size \in WritableSizes : ProcessStart(t, size))
    \/ t # "render" /\ ProcessGuard(t)
    \/ t # "render" /\ (\E fails \in 0..2 : ProcessDrain(t, fails))
    \/ t # "render" /\ Unlock(t, "unlock")
    \/ t = "render" /\ Lock(t, "create_lock", "create")
    \/ t = "render" /\ (\E ok \in BOOLEAN : CreateStream(ok))
    \/ t = "render" /\ Lock(t, "destroy_lock", "destroy")
    \/ t = "render" /\ DestroyStream
    \/ t = "render" /\ DestroyGuard
    \/ t = "render" /\ DestroyClear
    \/ t = "render" /\ Lock(t, "setting_lock", "setting")
    \/ t = "render" /\ Unlock(t, "setting")

SinkNext ==
    \/ (\E size \in WriteSizes : WriteCall(size)) /\ UNCHANGED sinkFrame
    \/ WriteGuard /\ UNCHANGED sinkFrame
    \/ WriteEmplace /\ UNCHANGED sinkFrame
    \/ Lock("audio", "lock", "process") /\ UNCHANGED sinkFrame
    \/ Dispatch /\ UNCHANGED sinkFrame
    \/ (\E t \in {"audio", "mainloop"}, size \in WritableSizes :
            ProcessStart(t, size)) /\ UNCHANGED sinkFrame
    \/ (\E t \in {"audio", "mainloop"} : ProcessGuard(t)) /\ UNCHANGED sinkFrame
    \/ (\E t \in {"audio", "mainloop"}, fails \in 0..2 :
            ProcessDrain(t, fails)) /\ UNCHANGED sinkFrame
    \/ (\E t \in {"audio", "mainloop"} : Unlock(t, "unlock"))
           /\ UNCHANGED sinkFrame
    \/ CreateCall /\ UNCHANGED sinkFrame
    \/ Lock("render", "create_lock", "create") /\ UNCHANGED sinkFrame
    \/ (\E ok \in BOOLEAN : CreateStream(ok)) /\ UNCHANGED sinkFrame
    \/ DestroyCall /\ UNCHANGED sinkFrame
    \/ Lock("render", "destroy_lock", "destroy") /\ UNCHANGED sinkFrame
    \/ DestroyStream /\ UNCHANGED sinkFrame
    \/ DestroyGuard /\ UNCHANGED sinkFrame
    \/ DestroyClear /\ UNCHANGED sinkFrame
    \/ (\E v \in SinkVolumes : SinkVolume(v)) /\ UNCHANGED sinkFrame
    \/ (\E m \in BOOLEAN : SinkMuted(m)) /\ UNCHANGED sinkFrame
    \/ Lock("render", "setting_lock", "setting") /\ UNCHANGED sinkFrame
    \/ Unlock("render", "setting") /\ UNCHANGED sinkFrame

SinkSpec == Init /\ [][SinkNext]_vars

\* SinkFairSpec: a thread inside an operation keeps being scheduled, and a
\* thread waiting for a lock gets it if the lock is free again and again.
SinkFairSpec ==
    /\ SinkSpec
    /\ \A t \in SinkThreads : SF_vars(Continue(t) /\ UNCHANGED sinkFrame)

IsPrefix(a, b) == Len(a) <= Len(b) /\ SubSeq(b, 1, Len(a)) = a

\* C29: the bytes handed to a stream are, in order, a prefix of the bytes of
\* the buffers write_audio_data queued since the stream was made: none is
\* lost, duplicated or reordered.
C29_SinkQueueOrder == IsPrefix(handed, accepted)

WaitsForMainloop(t) ==
    spc[t] \in {"lock", "create_lock", "destroy_lock", "setting_lock"}
WaitsForBuffer(t) == spc[t] \in {"guard", "drain_guard", "clear_guard"}
Blocked(t) ==
    \/ WaitsForMainloop(t) /\ mainloop_lock # Free
    \/ WaitsForBuffer(t) /\ buffer_mutex # Free
NoLockInversion ==
    \A t \in SinkThreads : WaitsForMainloop(t) => buffer_mutex # t
NoDeadlock ==
    (\E t \in SinkThreads : spc[t] # "idle")
        => \E t \in SinkThreads : spc[t] # "idle" /\ ~Blocked(t)

\* C30: no thread waits for the mainloop lock while it holds the
\* audio-buffer mutex, the operations in progress are never all blocked,
\* and every operation that was called returns.
C30_SinkDeadlockFree ==
    /\ [](NoLockInversion /\ NoDeadlock)
    /\ \A t \in SinkThreads : (spc[t] # "idle") ~> (spc[t] = "idle")

\* the audio thread waits to queue its buffer while the render thread,
\* inside destroy_audio_stream, holds both locks, and the mainloop thread
\* waits to dispatch
C30_Witness ==
    /\ spc["audio"] = "guard" /\ spc["render"] = "clear"
    /\ mainloop_lock = "render" /\ buffer_mutex = "render"

====
